---- MODULE Spec2Model ----
(***************************************************************************)
(* The evie bytecode virtual machine (evie_vm/src/vm.rs): value stack,     *)
(* call frames, open-upvalue list, closures, globals and the dispatch loop *)
(* of VirtualMachine::run, one action per opcode handler.                  *)
(*                                                                         *)
(* Numbers are modelled as integers (every number the programs below       *)
(* compute is an integer an f64 holds exactly, so num_equals is equality). *)
(* A string value carries its heap handle h and its immutable contents s.  *)
(***************************************************************************)
EXTENDS Integers, Sequences, FiniteSets, TLC

\* vm.rs:22
STACK_SIZE == 1024

\* Number of interpret calls made on one VirtualMachine.
MaxRuns == 2

(***************************************************************************)
(* Opcode bytes: the discriminants of enum Opcode (opcodes.rs:10-89).      *)
(***************************************************************************)
OP_CONSTANT == 0
OP_RETURN == 1
OP_ADD == 2
OP_SUBTRACT == 3
OP_MULTIPLY == 4
OP_DIVIDE == 5
OP_NEGATE == 6
OP_NIL == 7
OP_TRUE == 8
OP_FALSE == 9
OP_NOT == 10
OP_EQUAL_EQUAL == 11
OP_BANG_EQUAL == 12
OP_GREATER == 13
OP_GREATER_EQUAL == 14
OP_LESS == 15
OP_LESS_EQUAL == 16
OP_PRINT == 17
OP_POP == 18
OP_DEFINE_GLOBAL == 19
OP_GET_GLOBAL == 20
OP_SET_GLOBAL == 21
OP_GET_LOCAL == 22
OP_SET_LOCAL == 23
OP_JUMP_IF_FALSE == 24
OP_JUMP_IF_TRUE == 25
OP_JUMP == 26
OP_LOOP == 27
OP_CALL == 28
OP_CLOSURE == 29
OP_GET_UPVALUE == 30
OP_SET_UPVALUE == 31
OP_CLOSE_UPVALUE == 32
OP_CLASS == 33
OP_SET_PROPERTY == 34
OP_GET_PROPERTY == 35
OP_METHOD == 36
OP_INVOKE == 37

(***************************************************************************)
(* Values (evie_memory::objects::Value / Object as vm.rs matches on them). *)
(***************************************************************************)
Nil == [t |-> "nil"]
Boolean(b) == [t |-> "bool", b |-> b]
Number(n) == [t |-> "num", n |-> n]
String(h, s) == [t |-> "str", h |-> h, s |-> s]
ClosureObject(c) == [t |-> "closure", c |-> c]
\* Object::Function(Function::Native(NativeFunction { name, arity, function }))
NativeFunction(name, arity) == [t |-> "native", name |-> name, arity |-> arity]

\* Location::Stack(index) / Location::Heap(value)
LocationStack(i) == [kind |-> "Stack", index |-> i]
LocationHeap(v) == [kind |-> "Heap", value |-> v]

(***************************************************************************)
(* The chunks the compiler hands to the VM.  Each definition is the        *)
(* sequence of functions compiled from the source quoted above it; a        *)
(* function constant [t |-> "fn", f |-> i] refers to Functions[i].  String *)
(* constants are interned (equal contents, equal handle).                  *)
(***************************************************************************)
\* fun a() { b(); }  fun b() { c(); }  fun c() { c("too", "many"); }  a();
ProgCallError ==
  <<
     [name |-> "", arity |-> 0, upvalue_count |-> 0,
      code |-> <<OP_CLOSURE, 1, OP_DEFINE_GLOBAL, 0, OP_CLOSURE, 3, OP_DEFINE_GLOBAL, 2, OP_CLOSURE, 5,
                 OP_DEFINE_GLOBAL, 4, OP_GET_GLOBAL, 6, OP_CALL, 0, OP_POP, OP_NIL, OP_RETURN>>,
      lines |-> <<2, 2, 2, 2, 3, 3, 3, 3, 6, 6, 6, 6, 8, 8, 8, 8, 8, 9, 9>>,
      constants |-> <<[t |-> "str", h |-> 1, s |-> "a"],
                      [t |-> "fn", f |-> 2],
                      [t |-> "str", h |-> 2, s |-> "b"],
                      [t |-> "fn", f |-> 3],
                      [t |-> "str", h |-> 3, s |-> "c"],
                      [t |-> "fn", f |-> 4],
                      [t |-> "str", h |-> 1, s |-> "a"]>>],
     [name |-> "a", arity |-> 0, upvalue_count |-> 0,
      code |-> <<OP_GET_GLOBAL, 0, OP_CALL, 0, OP_POP, OP_NIL, OP_RETURN>>,
      lines |-> <<2, 2, 2, 2, 2, 2, 2>>,
      constants |-> <<[t |-> "str", h |-> 2, s |-> "b"]>>],
     [name |-> "b", arity |-> 0, upvalue_count |-> 0,
      code |-> <<OP_GET_GLOBAL, 0, OP_CALL, 0, OP_POP, OP_NIL, OP_RETURN>>,
      lines |-> <<3, 3, 3, 3, 3, 3, 3>>,
      constants |-> <<[t |-> "str", h |-> 3, s |-> "c"]>>],
     [name |-> "c", arity |-> 0, upvalue_count |-> 0,
      code |-> <<OP_GET_GLOBAL, 0, OP_CONSTANT, 1, OP_CONSTANT, 2, OP_CALL, 2, OP_POP, OP_NIL,
                 OP_RETURN>>,
      lines |-> <<5, 5, 5, 5, 5, 5, 5, 5, 5, 6, 6>>,
      constants |-> <<[t |-> "str", h |-> 3, s |-> "c"],
                      [t |-> "str", h |-> 4, s |-> "too"],
                      [t |-> "str", h |-> 5, s |-> "many"]>>]
  >>

\* var hello = "hello"; var world = " world"; fun a() { return b(); }
\* fun b() { return c(hello, world); }  fun c(arg1, arg2) { return arg1 + arg2; }  print a();
ProgCallSuccess ==
  <<
     [name |-> "", arity |-> 0, upvalue_count |-> 0,
      code |-> <<OP_CONSTANT, 1, OP_DEFINE_GLOBAL, 1, OP_CONSTANT, 3, OP_DEFINE_GLOBAL, 2, OP_CLOSURE,
                 5, OP_DEFINE_GLOBAL, 4, OP_CLOSURE, 7, OP_DEFINE_GLOBAL, 6, OP_CLOSURE, 9,
                 OP_DEFINE_GLOBAL, 8, OP_GET_GLOBAL, 10, OP_CALL, 0, OP_PRINT, OP_NIL, OP_RETURN>>,
      lines |-> <<2, 2, 2, 2, 3, 3, 3, 3, 4, 4, 4, 4, 5, 5, 5, 5, 8, 8, 8, 8, 9, 9, 9, 9, 9, 10, 10>>,
      constants |-> <<[t |-> "str", h |-> 6, s |-> "hello"],
                      [t |-> "str", h |-> 6, s |-> "hello"],
                      [t |-> "str", h |-> 7, s |-> "world"],
                      [t |-> "str", h |-> 8, s |-> " world"],
                      [t |-> "str", h |-> 1, s |-> "a"],
                      [t |-> "fn", f |-> 6],
                      [t |-> "str", h |-> 2, s |-> "b"],
                      [t |-> "fn", f |-> 7],
                      [t |-> "str", h |-> 3, s |-> "c"],
                      [t |-> "fn", f |-> 8],
                      [t |-> "str", h |-> 1, s |-> "a"]>>],
     [name |-> "a", arity |-> 0, upvalue_count |-> 0,
      code |-> <<OP_GET_GLOBAL, 0, OP_CALL, 0, OP_RETURN, OP_NIL, OP_RETURN>>,
      lines |-> <<4, 4, 4, 4, 4, 4, 4>>,
      constants |-> <<[t |-> "str", h |-> 2, s |-> "b"]>>],
     [name |-> "b", arity |-> 0, upvalue_count |-> 0,
      code |-> <<OP_GET_GLOBAL, 0, OP_GET_GLOBAL, 1, OP_GET_GLOBAL, 2, OP_CALL, 2, OP_RETURN, OP_NIL,
                 OP_RETURN>>,
      lines |-> <<5, 5, 5, 5, 5, 5, 5, 5, 5, 5, 5>>,
      constants |-> <<[t |-> "str", h |-> 3, s |-> "c"],
                      [t |-> "str", h |-> 6, s |-> "hello"],
                      [t |-> "str", h |-> 7, s |-> "world"]>>],
     [name |-> "c", arity |-> 2, upvalue_count |-> 0,
      code |-> <<OP_GET_LOCAL, 1, OP_GET_LOCAL, 2, OP_ADD, OP_RETURN, OP_NIL, OP_RETURN>>,
      lines |-> <<7, 7, 7, 7, 7, 7, 8, 8>>,
      constants |-> <<>>]
  >>

\* fun outer() { var x = "outside"; fun inner() { print x; } return inner; }
\* var closure = outer(); closure();
ProgClosureReturned ==
  <<
     [name |-> "", arity |-> 0, upvalue_count |-> 0,
      code |-> <<OP_CLOSURE, 1, OP_DEFINE_GLOBAL, 0, OP_GET_GLOBAL, 3, OP_CALL, 0, OP_DEFINE_GLOBAL, 2,
                 OP_GET_GLOBAL, 4, OP_CALL, 0, OP_POP, OP_NIL, OP_RETURN>>,
      lines |-> <<9, 9, 9, 9, 11, 11, 11, 11, 11, 11, 12, 12, 12, 12, 12, 13, 13>>,
      constants |-> <<[t |-> "str", h |-> 9, s |-> "outer"],
                      [t |-> "fn", f |-> 10],
                      [t |-> "str", h |-> 10, s |-> "closure"],
                      [t |-> "str", h |-> 9, s |-> "outer"],
                      [t |-> "str", h |-> 10, s |-> "closure"]>>],
     [name |-> "outer", arity |-> 0, upvalue_count |-> 0,
      code |-> <<OP_CONSTANT, 0, OP_CLOSURE, 1, 1, 1, OP_GET_LOCAL, 2, OP_RETURN, OP_NIL, OP_RETURN>>,
      lines |-> <<3, 3, 6, 6, 6, 6, 8, 8, 8, 9, 9>>,
      constants |-> <<[t |-> "str", h |-> 11, s |-> "outside"],
                      [t |-> "fn", f |-> 11]>>],
     [name |-> "inner", arity |-> 0, upvalue_count |-> 1,
      code |-> <<OP_GET_UPVALUE, 0, OP_PRINT, OP_NIL, OP_RETURN>>,
      lines |-> <<5, 5, 5, 6, 6>>,
      constants |-> <<>>]
  >>

\* var globalSet; var globalGet;
\* fun main() { var a = "initial"; fun set() { a = "updated"; } fun get() { print a; }
\*              globalSet = set; globalGet = get; }
\* main(); globalSet(); globalGet();
ProgSiblingClosures ==
  <<
     [name |-> "", arity |-> 0, upvalue_count |-> 0,
      code |-> <<OP_NIL, OP_DEFINE_GLOBAL, 0, OP_NIL, OP_DEFINE_GLOBAL, 1, OP_CLOSURE, 3,
                 OP_DEFINE_GLOBAL, 2, OP_GET_GLOBAL, 4, OP_CALL, 0, OP_POP, OP_GET_GLOBAL, 5, OP_CALL,
                 0, OP_POP, OP_GET_GLOBAL, 6, OP_CALL, 0, OP_POP, OP_NIL, OP_RETURN>>,
      lines |-> <<2, 2, 2, 3, 3, 3, 13, 13, 13, 13, 15, 15, 15, 15, 15, 16, 16, 16, 16, 16, 17, 17, 17,
                  17, 17, 18, 18>>,
      constants |-> <<[t |-> "str", h |-> 13, s |-> "globalSet"],
                      [t |-> "str", h |-> 14, s |-> "globalGet"],
                      [t |-> "str", h |-> 16, s |-> "main"],
                      [t |-> "fn", f |-> 13],
                      [t |-> "str", h |-> 16, s |-> "main"],
                      [t |-> "str", h |-> 13, s |-> "globalSet"],
                      [t |-> "str", h |-> 14, s |-> "globalGet"]>>],
     [name |-> "main", arity |-> 0, upvalue_count |-> 0,
      code |-> <<OP_CONSTANT, 0, OP_CLOSURE, 1, 1, 1, OP_CLOSURE, 2, 1, 1, OP_GET_LOCAL, 2,
                 OP_SET_GLOBAL, 3, OP_POP, OP_GET_LOCAL, 3, OP_SET_GLOBAL, 4, OP_POP, OP_NIL, OP_RETURN>>,
      lines |-> <<6, 6, 8, 8, 8, 8, 9, 9, 9, 9, 11, 11, 11, 11, 11, 12, 12, 12, 12, 12, 13, 13>>,
      constants |-> <<[t |-> "str", h |-> 12, s |-> "initial"],
                      [t |-> "fn", f |-> 14],
                      [t |-> "fn", f |-> 15],
                      [t |-> "str", h |-> 13, s |-> "globalSet"],
                      [t |-> "str", h |-> 14, s |-> "globalGet"]>>],
     [name |-> "set", arity |-> 0, upvalue_count |-> 1,
      code |-> <<OP_CONSTANT, 0, OP_SET_UPVALUE, 0, OP_POP, OP_NIL, OP_RETURN>>,
      lines |-> <<8, 8, 8, 8, 8, 8, 8>>,
      constants |-> <<[t |-> "str", h |-> 15, s |-> "updated"]>>],
     [name |-> "get", arity |-> 0, upvalue_count |-> 1,
      code |-> <<OP_GET_UPVALUE, 0, OP_PRINT, OP_NIL, OP_RETURN>>,
      lines |-> <<9, 9, 9, 9, 9>>,
      constants |-> <<>>]
  >>

\* fun infinite_recursion() { infinite_recursion(); }  infinite_recursion();
ProgStackOverflow ==
  <<
     [name |-> "", arity |-> 0, upvalue_count |-> 0,
      code |-> <<OP_CLOSURE, 1, OP_DEFINE_GLOBAL, 0, OP_GET_GLOBAL, 2, OP_CALL, 0, OP_POP, OP_NIL,
                 OP_RETURN>>,
      lines |-> <<4, 4, 4, 4, 6, 6, 6, 6, 6, 7, 7>>,
      constants |-> <<[t |-> "str", h |-> 17, s |-> "infinite_recursion"],
                      [t |-> "fn", f |-> 17],
                      [t |-> "str", h |-> 17, s |-> "infinite_recursion"]>>],
     [name |-> "infinite_recursion", arity |-> 0, upvalue_count |-> 0,
      code |-> <<OP_GET_GLOBAL, 0, OP_CALL, 0, OP_POP, OP_NIL, OP_RETURN>>,
      lines |-> <<3, 3, 3, 3, 3, 4, 4>>,
      constants |-> <<[t |-> "str", h |-> 17, s |-> "infinite_recursion"]>>]
  >>

\* fun f() { var a = 1; var b = 2;
\*           fun g() { return b; } fun h() { return a; } fun k() { return a + b; } }
\* f();
ProgCaptureOrder ==
  <<
     [name |-> "", arity |-> 0, upvalue_count |-> 0,
      code |-> <<OP_CLOSURE, 1, OP_DEFINE_GLOBAL, 0, OP_GET_GLOBAL, 2, OP_CALL, 0, OP_POP, OP_NIL,
                 OP_RETURN>>,
      lines |-> <<7, 7, 7, 7, 8, 8, 8, 8, 8, 9, 9>>,
      constants |-> <<[t |-> "str", h |-> 18, s |-> "f"],
                      [t |-> "fn", f |-> 19],
                      [t |-> "str", h |-> 18, s |-> "f"]>>],
     [name |-> "f", arity |-> 0, upvalue_count |-> 0,
      code |-> <<OP_CONSTANT, 0, OP_CONSTANT, 1, OP_CLOSURE, 2, 1, 2, OP_CLOSURE, 3, 1, 1, OP_CLOSURE,
                 4, 1, 1, 1, 2, OP_NIL, OP_RETURN>>,
      lines |-> <<2, 2, 3, 3, 4, 4, 4, 4, 5, 5, 5, 5, 6, 6, 6, 6, 6, 6, 7, 7>>,
      constants |-> <<[t |-> "num", n |-> 1],
                      [t |-> "num", n |-> 2],
                      [t |-> "fn", f |-> 20],
                      [t |-> "fn", f |-> 21],
                      [t |-> "fn", f |-> 22]>>],
     [name |-> "g", arity |-> 0, upvalue_count |-> 1,
      code |-> <<OP_GET_UPVALUE, 0, OP_RETURN, OP_NIL, OP_RETURN>>,
      lines |-> <<4, 4, 4, 4, 4>>,
      constants |-> <<>>],
     [name |-> "h", arity |-> 0, upvalue_count |-> 1,
      code |-> <<OP_GET_UPVALUE, 0, OP_RETURN, OP_NIL, OP_RETURN>>,
      lines |-> <<5, 5, 5, 5, 5>>,
      constants |-> <<>>],
     [name |-> "k", arity |-> 0, upvalue_count |-> 2,
      code |-> <<OP_GET_UPVALUE, 0, OP_GET_UPVALUE, 1, OP_ADD, OP_RETURN, OP_NIL, OP_RETURN>>,
      lines |-> <<6, 6, 6, 6, 6, 6, 6, 6>>,
      constants |-> <<>>]
  >>

\* print "a" + "b" == "ab";  print 1 + 2;
ProgStrings ==
  <<
     [name |-> "", arity |-> 0, upvalue_count |-> 0,
      code |-> <<OP_CONSTANT, 0, OP_CONSTANT, 1, OP_ADD, OP_CONSTANT, 2, OP_EQUAL_EQUAL, OP_PRINT,
                 OP_CONSTANT, 3, OP_CONSTANT, 4, OP_ADD, OP_PRINT, OP_NIL, OP_RETURN>>,
      lines |-> <<1, 1, 1, 1, 1, 1, 1, 1, 1, 2, 2, 2, 2, 2, 2, 3, 3>>,
      constants |-> <<[t |-> "str", h |-> 1, s |-> "a"],
                      [t |-> "str", h |-> 2, s |-> "b"],
                      [t |-> "str", h |-> 19, s |-> "ab"],
                      [t |-> "num", n |-> 1],
                      [t |-> "num", n |-> 2]>>]
  >>

\* fun outer() { var x = 1; fun middle() { fun inner() { return x; } return inner; }
\*               return middle; }
\* { var y = 5; fun g() { return y; } }
\* print outer()()();
ProgNestedClosures ==
  <<
     [name |-> "", arity |-> 0, upvalue_count |-> 0,
      code |-> <<OP_CLOSURE, 1, OP_DEFINE_GLOBAL, 0, OP_CONSTANT, 2, OP_CLOSURE, 3, 1, 1, OP_POP,
                 OP_CLOSE_UPVALUE, OP_GET_GLOBAL, 4, OP_CALL, 0, OP_CALL, 0, OP_CALL, 0, OP_PRINT,
                 OP_NIL, OP_RETURN>>,
      lines |-> <<8, 8, 8, 8, 9, 9, 9, 9, 9, 9, 9, 9, 10, 10, 10, 10, 10, 10, 10, 10, 10, 11, 11>>,
      constants |-> <<[t |-> "str", h |-> 9, s |-> "outer"],
                      [t |-> "fn", f |-> 25],
                      [t |-> "num", n |-> 5],
                      [t |-> "fn", f |-> 28],
                      [t |-> "str", h |-> 9, s |-> "outer"]>>],
     [name |-> "outer", arity |-> 0, upvalue_count |-> 0,
      code |-> <<OP_CONSTANT, 0, OP_CLOSURE, 1, 1, 1, OP_GET_LOCAL, 2, OP_RETURN, OP_NIL, OP_RETURN>>,
      lines |-> <<2, 2, 6, 6, 6, 6, 7, 7, 7, 8, 8>>,
      constants |-> <<[t |-> "num", n |-> 1],
                      [t |-> "fn", f |-> 26]>>],
     [name |-> "middle", arity |-> 0, upvalue_count |-> 1,
      code |-> <<OP_CLOSURE, 0, 0, 0, OP_GET_LOCAL, 1, OP_RETURN, OP_NIL, OP_RETURN>>,
      lines |-> <<4, 4, 4, 4, 5, 5, 5, 6, 6>>,
      constants |-> <<[t |-> "fn", f |-> 27]>>],
     [name |-> "inner", arity |-> 0, upvalue_count |-> 1,
      code |-> <<OP_GET_UPVALUE, 0, OP_RETURN, OP_NIL, OP_RETURN>>,
      lines |-> <<4, 4, 4, 4, 4>>,
      constants |-> <<>>],
     [name |-> "g", arity |-> 0, upvalue_count |-> 1,
      code |-> <<OP_GET_UPVALUE, 0, OP_RETURN, OP_NIL, OP_RETURN>>,
      lines |-> <<9, 9, 9, 9, 9>>,
      constants |-> <<>>]
  >>

\* var globalSet;
\* fun main() { var v = "initial"; fun set() { v = "updated"; } globalSet = set; }
\* main();
\* fun b() { globalSet(); }
\* fun a() { b(); }
\* a();
ProgClobberedCaller ==
  <<
     [name |-> "", arity |-> 0, upvalue_count |-> 0,
      code |-> <<OP_NIL, OP_DEFINE_GLOBAL, 0, OP_CLOSURE, 2, OP_DEFINE_GLOBAL, 1, OP_GET_GLOBAL, 3,
                 OP_CALL, 0, OP_POP, OP_CLOSURE, 5, OP_DEFINE_GLOBAL, 4, OP_CLOSURE, 7,
                 OP_DEFINE_GLOBAL, 6, OP_GET_GLOBAL, 8, OP_CALL, 0, OP_POP, OP_NIL, OP_RETURN>>,
      lines |-> <<2, 2, 2, 3, 3, 3, 3, 4, 4, 4, 4, 4, 5, 5, 5, 5, 6, 6, 6, 6, 7, 7, 7, 7, 7, 8, 8>>,
      constants |-> <<[t |-> "str", h |-> 13, s |-> "globalSet"],
                      [t |-> "str", h |-> 16, s |-> "main"],
                      [t |-> "fn", f |-> 30],
                      [t |-> "str", h |-> 16, s |-> "main"],
                      [t |-> "str", h |-> 2, s |-> "b"],
                      [t |-> "fn", f |-> 32],
                      [t |-> "str", h |-> 1, s |-> "a"],
                      [t |-> "fn", f |-> 33],
                      [t |-> "str", h |-> 1, s |-> "a"]>>],
     [name |-> "main", arity |-> 0, upvalue_count |-> 0,
      code |-> <<OP_CONSTANT, 0, OP_CLOSURE, 1, 1, 1, OP_GET_LOCAL, 2, OP_SET_GLOBAL, 2, OP_POP, OP_NIL,
                 OP_RETURN>>,
      lines |-> <<3, 3, 3, 3, 3, 3, 3, 3, 3, 3, 3, 3, 3>>,
      constants |-> <<[t |-> "str", h |-> 12, s |-> "initial"],
                      [t |-> "fn", f |-> 31],
                      [t |-> "str", h |-> 13, s |-> "globalSet"]>>],
     [name |-> "set", arity |-> 0, upvalue_count |-> 1,
      code |-> <<OP_CONSTANT, 0, OP_SET_UPVALUE, 0, OP_POP, OP_NIL, OP_RETURN>>,
      lines |-> <<3, 3, 3, 3, 3, 3, 3>>,
      constants |-> <<[t |-> "str", h |-> 15, s |-> "updated"]>>],
     [name |-> "b", arity |-> 0, upvalue_count |-> 0,
      code |-> <<OP_GET_GLOBAL, 0, OP_CALL, 0, OP_POP, OP_NIL, OP_RETURN>>,
      lines |-> <<5, 5, 5, 5, 5, 5, 5>>,
      constants |-> <<[t |-> "str", h |-> 13, s |-> "globalSet"]>>],
     [name |-> "a", arity |-> 0, upvalue_count |-> 0,
      code |-> <<OP_GET_GLOBAL, 0, OP_CALL, 0, OP_POP, OP_NIL, OP_RETURN>>,
      lines |-> <<6, 6, 6, 6, 6, 6, 6>>,
      constants |-> <<[t |-> "str", h |-> 2, s |-> "b"]>>]
  >>

\* var globalSet;
\* fun main() { var v = "initial"; fun set() { v = "updated"; } globalSet = set; }
\* main();
\* fun c() { globalSet(); c(1); }
\* fun b() { c(); }
\* fun a() { b(); }
\* a();
ProgClobberedFrame ==
  <<
     [name |-> "", arity |-> 0, upvalue_count |-> 0,
      code |-> <<OP_NIL, OP_DEFINE_GLOBAL, 0, OP_CLOSURE, 2, OP_DEFINE_GLOBAL, 1, OP_GET_GLOBAL, 3,
                 OP_CALL, 0, OP_POP, OP_CLOSURE, 5, OP_DEFINE_GLOBAL, 4, OP_CLOSURE, 7,
                 OP_DEFINE_GLOBAL, 6, OP_CLOSURE, 9, OP_DEFINE_GLOBAL, 8, OP_GET_GLOBAL, 10, OP_CALL, 0,
                 OP_POP, OP_NIL, OP_RETURN>>,
      lines |-> <<2, 2, 2, 3, 3, 3, 3, 4, 4, 4, 4, 4, 5, 5, 5, 5, 6, 6, 6, 6, 7, 7, 7, 7, 8, 8, 8, 8, 8,
                  9, 9>>,
      constants |-> <<[t |-> "str", h |-> 13, s |-> "globalSet"],
                      [t |-> "str", h |-> 16, s |-> "main"],
                      [t |-> "fn", f |-> 35],
                      [t |-> "str", h |-> 16, s |-> "main"],
                      [t |-> "str", h |-> 3, s |-> "c"],
                      [t |-> "fn", f |-> 37],
                      [t |-> "str", h |-> 2, s |-> "b"],
                      [t |-> "fn", f |-> 38],
                      [t |-> "str", h |-> 1, s |-> "a"],
                      [t |-> "fn", f |-> 39],
                      [t |-> "str", h |-> 1, s |-> "a"]>>],
     [name |-> "main", arity |-> 0, upvalue_count |-> 0,
      code |-> <<OP_CONSTANT, 0, OP_CLOSURE, 1, 1, 1, OP_GET_LOCAL, 2, OP_SET_GLOBAL, 2, OP_POP, OP_NIL,
                 OP_RETURN>>,
      lines |-> <<3, 3, 3, 3, 3, 3, 3, 3, 3, 3, 3, 3, 3>>,
      constants |-> <<[t |-> "str", h |-> 12, s |-> "initial"],
                      [t |-> "fn", f |-> 36],
                      [t |-> "str", h |-> 13, s |-> "globalSet"]>>],
     [name |-> "set", arity |-> 0, upvalue_count |-> 1,
      code |-> <<OP_CONSTANT, 0, OP_SET_UPVALUE, 0, OP_POP, OP_NIL, OP_RETURN>>,
      lines |-> <<3, 3, 3, 3, 3, 3, 3>>,
      constants |-> <<[t |-> "str", h |-> 15, s |-> "updated"]>>],
     [name |-> "c", arity |-> 0, upvalue_count |-> 0,
      code |-> <<OP_GET_GLOBAL, 0, OP_CALL, 0, OP_POP, OP_GET_GLOBAL, 1, OP_CONSTANT, 2, OP_CALL, 1,
                 OP_POP, OP_NIL, OP_RETURN>>,
      lines |-> <<5, 5, 5, 5, 5, 5, 5, 5, 5, 5, 5, 5, 5, 5>>,
      constants |-> <<[t |-> "str", h |-> 13, s |-> "globalSet"],
                      [t |-> "str", h |-> 3, s |-> "c"],
                      [t |-> "num", n |-> 1]>>],
     [name |-> "b", arity |-> 0, upvalue_count |-> 0,
      code |-> <<OP_GET_GLOBAL, 0, OP_CALL, 0, OP_POP, OP_NIL, OP_RETURN>>,
      lines |-> <<6, 6, 6, 6, 6, 6, 6>>,
      constants |-> <<[t |-> "str", h |-> 3, s |-> "c"]>>],
     [name |-> "a", arity |-> 0, upvalue_count |-> 0,
      code |-> <<OP_GET_GLOBAL, 0, OP_CALL, 0, OP_POP, OP_NIL, OP_RETURN>>,
      lines |-> <<7, 7, 7, 7, 7, 7, 7>>,
      constants |-> <<[t |-> "str", h |-> 2, s |-> "b"]>>]
  >>

\* var g = 1;
\* fun f() {
\*   print 0; print 1; print 2; print 3; print 4;
\*   print 5; print 6; print 7; print 8; print 9;
\*   g.p.q;
\* }
\* f();
ProgPropertyChain ==
  <<
     [name |-> "", arity |-> 0, upvalue_count |-> 0,
      code |-> <<OP_CONSTANT, 1, OP_DEFINE_GLOBAL, 0, OP_CLOSURE, 3, OP_DEFINE_GLOBAL, 2, OP_GET_GLOBAL,
                 4, OP_CALL, 0, OP_POP, OP_NIL, OP_RETURN>>,
      lines |-> <<2, 2, 2, 2, 7, 7, 7, 7, 8, 8, 8, 8, 8, 9, 9>>,
      constants |-> <<[t |-> "str", h |-> 20, s |-> "g"],
                      [t |-> "num", n |-> 1],
                      [t |-> "str", h |-> 18, s |-> "f"],
                      [t |-> "fn", f |-> 41],
                      [t |-> "str", h |-> 18, s |-> "f"]>>],
     [name |-> "f", arity |-> 0, upvalue_count |-> 0,
      code |-> <<OP_CONSTANT, 0, OP_PRINT, OP_CONSTANT, 1, OP_PRINT, OP_CONSTANT, 2, OP_PRINT,
                 OP_CONSTANT, 3, OP_PRINT, OP_CONSTANT, 4, OP_PRINT, OP_CONSTANT, 5, OP_PRINT,
                 OP_CONSTANT, 6, OP_PRINT, OP_CONSTANT, 7, OP_PRINT, OP_CONSTANT, 8, OP_PRINT,
                 OP_CONSTANT, 9, OP_PRINT, OP_GET_GLOBAL, 10, OP_GET_PROPERTY, 11, OP_GET_PROPERTY, 12,
                 OP_POP, OP_NIL, OP_RETURN>>,
      lines |-> <<4, 4, 4, 4, 4, 4, 4, 4, 4, 4, 4, 4, 4, 4, 4, 5, 5, 5, 5, 5, 5, 5, 5, 5, 5, 5, 5, 5, 5,
                  5, 6, 6, 6, 6, 6, 6, 6, 7, 7>>,
      constants |-> <<[t |-> "num", n |-> 0],
                      [t |-> "num", n |-> 1],
                      [t |-> "num", n |-> 2],
                      [t |-> "num", n |-> 3],
                      [t |-> "num", n |-> 4],
                      [t |-> "num", n |-> 5],
                      [t |-> "num", n |-> 6],
                      [t |-> "num", n |-> 7],
                      [t |-> "num", n |-> 8],
                      [t |-> "num", n |-> 9],
                      [t |-> "str", h |-> 20, s |-> "g"],
                      [t |-> "str", h |-> 21, s |-> "p"],
                      [t |-> "str", h |-> 22, s |-> "q"]>>]
  >>

\* print to_string(1);  clock(1);
ProgNatives ==
  <<
     [name |-> "", arity |-> 0, upvalue_count |-> 0,
      code |-> <<OP_GET_GLOBAL, 0, OP_CONSTANT, 1, OP_CALL, 1, OP_PRINT, OP_GET_GLOBAL, 2, OP_CONSTANT,
                 3, OP_CALL, 1, OP_POP, OP_NIL, OP_RETURN>>,
      lines |-> <<1, 1, 1, 1, 1, 1, 1, 2, 2, 2, 2, 2, 2, 2, 3, 3>>,
      constants |-> <<[t |-> "str", h |-> 23, s |-> "to_string"],
                      [t |-> "num", n |-> 1],
                      [t |-> "str", h |-> 24, s |-> "clock"],
                      [t |-> "num", n |-> 1]>>]
  >>

\* class Brunch { init(food, drinks) { this.food = food; this.drinks = drinks; } }
\* var brunch = Brunch("eggs");
ProgClassInit ==
  <<
     [name |-> "", arity |-> 0, upvalue_count |-> 0,
      code |-> <<OP_CLASS, 0, OP_DEFINE_GLOBAL, 0, OP_GET_GLOBAL, 1, OP_CLOSURE, 2, OP_METHOD, 3,
                 OP_POP, OP_GET_GLOBAL, 5, OP_CONSTANT, 6, OP_CALL, 1, OP_DEFINE_GLOBAL, 4, OP_NIL,
                 OP_RETURN>>,
      lines |-> <<2, 2, 2, 2, 2, 2, 6, 6, 6, 6, 7, 9, 9, 9, 9, 9, 9, 9, 9, 10, 10>>,
      constants |-> <<[t |-> "str", h |-> 25, s |-> "Brunch"],
                      [t |-> "str", h |-> 25, s |-> "Brunch"],
                      [t |-> "fn", f |-> 44],
                      [t |-> "str", h |-> 26, s |-> "init"],
                      [t |-> "str", h |-> 27, s |-> "brunch"],
                      [t |-> "str", h |-> 25, s |-> "Brunch"],
                      [t |-> "str", h |-> 28, s |-> "eggs"]>>],
     [name |-> "init", arity |-> 2, upvalue_count |-> 0,
      code |-> <<OP_GET_LOCAL, 0, OP_GET_LOCAL, 1, OP_SET_PROPERTY, 0, OP_POP, OP_GET_LOCAL, 0,
                 OP_GET_LOCAL, 2, OP_SET_PROPERTY, 1, OP_POP, OP_GET_LOCAL, 0, OP_RETURN>>,
      lines |-> <<4, 4, 4, 4, 4, 4, 4, 5, 5, 5, 5, 5, 5, 5, 6, 6, 6>>,
      constants |-> <<[t |-> "str", h |-> 29, s |-> "food"],
                      [t |-> "str", h |-> 30, s |-> "drinks"]>>]
  >>

\* class Pair {}  var pair = Pair();  pair.first = 1;  pair.second = 2;
\* print pair.first + pair.second;
ProgClassFields ==
  <<
     [name |-> "", arity |-> 0, upvalue_count |-> 0,
      code |-> <<OP_CLASS, 0, OP_DEFINE_GLOBAL, 0, OP_GET_GLOBAL, 1, OP_POP, OP_GET_GLOBAL, 3, OP_CALL,
                 0, OP_DEFINE_GLOBAL, 2, OP_GET_GLOBAL, 4, OP_CONSTANT, 6, OP_SET_PROPERTY, 5, OP_POP,
                 OP_GET_GLOBAL, 7, OP_CONSTANT, 9, OP_SET_PROPERTY, 8, OP_POP, OP_GET_GLOBAL, 10,
                 OP_GET_PROPERTY, 11, OP_GET_GLOBAL, 12, OP_GET_PROPERTY, 13, OP_ADD, OP_PRINT, OP_NIL,
                 OP_RETURN>>,
      lines |-> <<2, 2, 2, 2, 2, 2, 2, 4, 4, 4, 4, 4, 4, 5, 5, 5, 5, 5, 5, 5, 6, 6, 6, 6, 6, 6, 6, 7, 7,
                  7, 7, 7, 7, 7, 7, 7, 7, 9, 9>>,
      constants |-> <<[t |-> "str", h |-> 31, s |-> "Pair"],
                      [t |-> "str", h |-> 31, s |-> "Pair"],
                      [t |-> "str", h |-> 32, s |-> "pair"],
                      [t |-> "str", h |-> 31, s |-> "Pair"],
                      [t |-> "str", h |-> 32, s |-> "pair"],
                      [t |-> "str", h |-> 33, s |-> "first"],
                      [t |-> "num", n |-> 1],
                      [t |-> "str", h |-> 32, s |-> "pair"],
                      [t |-> "str", h |-> 34, s |-> "second"],
                      [t |-> "num", n |-> 2],
                      [t |-> "str", h |-> 32, s |-> "pair"],
                      [t |-> "str", h |-> 33, s |-> "first"],
                      [t |-> "str", h |-> 32, s |-> "pair"],
                      [t |-> "str", h |-> 34, s |-> "second"]>>]
  >>

\* var a = 2;  { print a; var a = 3; print a; var b = a; }  print a;  print b;
ProgBlockUndefined ==
  <<
     [name |-> "", arity |-> 0, upvalue_count |-> 0,
      code |-> <<OP_CONSTANT, 1, OP_DEFINE_GLOBAL, 0, OP_GET_GLOBAL, 2, OP_PRINT, OP_CONSTANT, 3,
                 OP_GET_LOCAL, 1, OP_PRINT, OP_GET_LOCAL, 1, OP_POP, OP_POP, OP_GET_GLOBAL, 4, OP_PRINT,
                 OP_GET_GLOBAL, 5, OP_PRINT, OP_NIL, OP_RETURN>>,
      lines |-> <<2, 2, 2, 2, 4, 4, 4, 5, 5, 6, 6, 6, 7, 7, 8, 8, 9, 9, 9, 10, 10, 10, 11, 11>>,
      constants |-> <<[t |-> "str", h |-> 1, s |-> "a"],
                      [t |-> "num", n |-> 2],
                      [t |-> "str", h |-> 1, s |-> "a"],
                      [t |-> "num", n |-> 3],
                      [t |-> "str", h |-> 1, s |-> "a"],
                      [t |-> "str", h |-> 2, s |-> "b"]>>]
  >>

\* var a = 1;  var a = 2;  print a;  print a = 3;  print a;  b = 4;
ProgGlobals ==
  <<
     [name |-> "", arity |-> 0, upvalue_count |-> 0,
      code |-> <<OP_CONSTANT, 1, OP_DEFINE_GLOBAL, 0, OP_CONSTANT, 3, OP_DEFINE_GLOBAL, 2,
                 OP_GET_GLOBAL, 4, OP_PRINT, OP_CONSTANT, 5, OP_SET_GLOBAL, 6, OP_PRINT, OP_GET_GLOBAL,
                 7, OP_PRINT, OP_CONSTANT, 8, OP_SET_GLOBAL, 9, OP_POP, OP_NIL, OP_RETURN>>,
      lines |-> <<1, 1, 1, 1, 2, 2, 2, 2, 3, 3, 3, 4, 4, 4, 4, 4, 5, 5, 5, 6, 6, 6, 6, 6, 7, 7>>,
      constants |-> <<[t |-> "str", h |-> 1, s |-> "a"],
                      [t |-> "num", n |-> 1],
                      [t |-> "str", h |-> 1, s |-> "a"],
                      [t |-> "num", n |-> 2],
                      [t |-> "str", h |-> 1, s |-> "a"],
                      [t |-> "num", n |-> 3],
                      [t |-> "str", h |-> 1, s |-> "a"],
                      [t |-> "str", h |-> 1, s |-> "a"],
                      [t |-> "num", n |-> 4],
                      [t |-> "str", h |-> 2, s |-> "b"]>>]
  >>

\* print "x" + "y";  print 1 + "a";
ProgAddMismatch ==
  <<
     [name |-> "", arity |-> 0, upvalue_count |-> 0,
      code |-> <<OP_CONSTANT, 0, OP_CONSTANT, 1, OP_ADD, OP_PRINT, OP_CONSTANT, 2, OP_CONSTANT, 3,
                 OP_ADD, OP_PRINT, OP_NIL, OP_RETURN>>,
      lines |-> <<1, 1, 1, 1, 1, 1, 2, 2, 2, 2, 2, 2, 3, 3>>,
      constants |-> <<[t |-> "str", h |-> 35, s |-> "x"],
                      [t |-> "str", h |-> 36, s |-> "y"],
                      [t |-> "num", n |-> 1],
                      [t |-> "str", h |-> 1, s |-> "a"]>>]
  >>

\* var globalSet;
\* fun main() { var v = "initial"; fun set() { v = "updated"; } globalSet = set; }
\* main();
\* fun c() { globalSet(); print x; }
\* fun b() { c(); }
\* fun a() { b(); }
\* a();
ProgClobberedGet ==
  <<
     [name |-> "", arity |-> 0, upvalue_count |-> 0,
      code |-> <<OP_NIL, OP_DEFINE_GLOBAL, 0, OP_CLOSURE, 2, OP_DEFINE_GLOBAL, 1, OP_GET_GLOBAL, 3,
                 OP_CALL, 0, OP_POP, OP_CLOSURE, 5, OP_DEFINE_GLOBAL, 4, OP_CLOSURE, 7,
                 OP_DEFINE_GLOBAL, 6, OP_CLOSURE, 9, OP_DEFINE_GLOBAL, 8, OP_GET_GLOBAL, 10, OP_CALL, 0,
                 OP_POP, OP_NIL, OP_RETURN>>,
      lines |-> <<2, 2, 2, 3, 3, 3, 3, 4, 4, 4, 4, 4, 5, 5, 5, 5, 6, 6, 6, 6, 7, 7, 7, 7, 8, 8, 8, 8, 8,
                  9, 9>>,
      constants |-> <<[t |-> "str", h |-> 13, s |-> "globalSet"],
                      [t |-> "str", h |-> 16, s |-> "main"],
                      [t |-> "fn", f |-> 50],
                      [t |-> "str", h |-> 16, s |-> "main"],
                      [t |-> "str", h |-> 3, s |-> "c"],
                      [t |-> "fn", f |-> 52],
                      [t |-> "str", h |-> 2, s |-> "b"],
                      [t |-> "fn", f |-> 53],
                      [t |-> "str", h |-> 1, s |-> "a"],
                      [t |-> "fn", f |-> 54],
                      [t |-> "str", h |-> 1, s |-> "a"]>>],
     [name |-> "main", arity |-> 0, upvalue_count |-> 0,
      code |-> <<OP_CONSTANT, 0, OP_CLOSURE, 1, 1, 1, OP_GET_LOCAL, 2, OP_SET_GLOBAL, 2, OP_POP, OP_NIL,
                 OP_RETURN>>,
      lines |-> <<3, 3, 3, 3, 3, 3, 3, 3, 3, 3, 3, 3, 3>>,
      constants |-> <<[t |-> "str", h |-> 12, s |-> "initial"],
                      [t |-> "fn", f |-> 51],
                      [t |-> "str", h |-> 13, s |-> "globalSet"]>>],
     [name |-> "set", arity |-> 0, upvalue_count |-> 1,
      code |-> <<OP_CONSTANT, 0, OP_SET_UPVALUE, 0, OP_POP, OP_NIL, OP_RETURN>>,
      lines |-> <<3, 3, 3, 3, 3, 3, 3>>,
      constants |-> <<[t |-> "str", h |-> 15, s |-> "updated"]>>],
     [name |-> "c", arity |-> 0, upvalue_count |-> 0,
      code |-> <<OP_GET_GLOBAL, 0, OP_CALL, 0, OP_POP, OP_GET_GLOBAL, 1, OP_PRINT, OP_NIL, OP_RETURN>>,
      lines |-> <<5, 5, 5, 5, 5, 5, 5, 5, 5, 5>>,
      constants |-> <<[t |-> "str", h |-> 13, s |-> "globalSet"],
                      [t |-> "str", h |-> 35, s |-> "x"]>>],
     [name |-> "b", arity |-> 0, upvalue_count |-> 0,
      code |-> <<OP_GET_GLOBAL, 0, OP_CALL, 0, OP_POP, OP_NIL, OP_RETURN>>,
      lines |-> <<6, 6, 6, 6, 6, 6, 6>>,
      constants |-> <<[t |-> "str", h |-> 3, s |-> "c"]>>],
     [name |-> "a", arity |-> 0, upvalue_count |-> 0,
      code |-> <<OP_GET_GLOBAL, 0, OP_CALL, 0, OP_POP, OP_NIL, OP_RETURN>>,
      lines |-> <<7, 7, 7, 7, 7, 7, 7>>,
      constants |-> <<[t |-> "str", h |-> 2, s |-> "b"]>>]
  >>

\* var globalSet;
\* fun main() { var v = "initial"; fun set() { v = "updated"; } globalSet = set; }
\* main();
\* fun c() { globalSet(); x = 1; }
\* fun b() { c(); }
\* fun a() { b(); }
\* a();
ProgClobberedSet ==
  <<
     [name |-> "", arity |-> 0, upvalue_count |-> 0,
      code |-> <<OP_NIL, OP_DEFINE_GLOBAL, 0, OP_CLOSURE, 2, OP_DEFINE_GLOBAL, 1, OP_GET_GLOBAL, 3,
                 OP_CALL, 0, OP_POP, OP_CLOSURE, 5, OP_DEFINE_GLOBAL, 4, OP_CLOSURE, 7,
                 OP_DEFINE_GLOBAL, 6, OP_CLOSURE, 9, OP_DEFINE_GLOBAL, 8, OP_GET_GLOBAL, 10, OP_CALL, 0,
                 OP_POP, OP_NIL, OP_RETURN>>,
      lines |-> <<2, 2, 2, 3, 3, 3, 3, 4, 4, 4, 4, 4, 5, 5, 5, 5, 6, 6, 6, 6, 7, 7, 7, 7, 8, 8, 8, 8, 8,
                  9, 9>>,
      constants |-> <<[t |-> "str", h |-> 13, s |-> "globalSet"],
                      [t |-> "str", h |-> 16, s |-> "main"],
                      [t |-> "fn", f |-> 56],
                      [t |-> "str", h |-> 16, s |-> "main"],
                      [t |-> "str", h |-> 3, s |-> "c"],
                      [t |-> "fn", f |-> 58],
                      [t |-> "str", h |-> 2, s |-> "b"],
                      [t |-> "fn", f |-> 59],
                      [t |-> "str", h |-> 1, s |-> "a"],
                      [t |-> "fn", f |-> 60],
                      [t |-> "str", h |-> 1, s |-> "a"]>>],
     [name |-> "main", arity |-> 0, upvalue_count |-> 0,
      code |-> <<OP_CONSTANT, 0, OP_CLOSURE, 1, 1, 1, OP_GET_LOCAL, 2, OP_SET_GLOBAL, 2, OP_POP, OP_NIL,
                 OP_RETURN>>,
      lines |-> <<3, 3, 3, 3, 3, 3, 3, 3, 3, 3, 3, 3, 3>>,
      constants |-> <<[t |-> "str", h |-> 12, s |-> "initial"],
                      [t |-> "fn", f |-> 57],
                      [t |-> "str", h |-> 13, s |-> "globalSet"]>>],
     [name |-> "set", arity |-> 0, upvalue_count |-> 1,
      code |-> <<OP_CONSTANT, 0, OP_SET_UPVALUE, 0, OP_POP, OP_NIL, OP_RETURN>>,
      lines |-> <<3, 3, 3, 3, 3, 3, 3>>,
      constants |-> <<[t |-> "str", h |-> 15, s |-> "updated"]>>],
     [name |-> "c", arity |-> 0, upvalue_count |-> 0,
      code |-> <<OP_GET_GLOBAL, 0, OP_CALL, 0, OP_POP, OP_CONSTANT, 1, OP_SET_GLOBAL, 2, OP_POP, OP_NIL,
                 OP_RETURN>>,
      lines |-> <<5, 5, 5, 5, 5, 5, 5, 5, 5, 5, 5, 5>>,
      constants |-> <<[t |-> "str", h |-> 13, s |-> "globalSet"],
                      [t |-> "num", n |-> 1],
                      [t |-> "str", h |-> 35, s |-> "x"]>>],
     [name |-> "b", arity |-> 0, upvalue_count |-> 0,
      code |-> <<OP_GET_GLOBAL, 0, OP_CALL, 0, OP_POP, OP_NIL, OP_RETURN>>,
      lines |-> <<6, 6, 6, 6, 6, 6, 6>>,
      constants |-> <<[t |-> "str", h |-> 3, s |-> "c"]>>],
     [name |-> "a", arity |-> 0, upvalue_count |-> 0,
      code |-> <<OP_GET_GLOBAL, 0, OP_CALL, 0, OP_POP, OP_NIL, OP_RETURN>>,
      lines |-> <<7, 7, 7, 7, 7, 7, 7>>,
      constants |-> <<[t |-> "str", h |-> 2, s |-> "b"]>>]
  >>

\* var globalSet;
\* fun main() { var v = "initial"; fun set() { v = "updated"; } globalSet = set; }
\* main();
\* fun c() { globalSet(); 1 + "a"; }
\* fun b() { c(); }
\* fun a() { b(); }
\* a();
ProgClobberedAdd ==
  <<
     [name |-> "", arity |-> 0, upvalue_count |-> 0,
      code |-> <<OP_NIL, OP_DEFINE_GLOBAL, 0, OP_CLOSURE, 2, OP_DEFINE_GLOBAL, 1, OP_GET_GLOBAL, 3,
                 OP_CALL, 0, OP_POP, OP_CLOSURE, 5, OP_DEFINE_GLOBAL, 4, OP_CLOSURE, 7,
                 OP_DEFINE_GLOBAL, 6, OP_CLOSURE, 9, OP_DEFINE_GLOBAL, 8, OP_GET_GLOBAL, 10, OP_CALL, 0,
                 OP_POP, OP_NIL, OP_RETURN>>,
      lines |-> <<2, 2, 2, 3, 3, 3, 3, 4, 4, 4, 4, 4, 5, 5, 5, 5, 6, 6, 6, 6, 7, 7, 7, 7, 8, 8, 8, 8, 8,
                  9, 9>>,
      constants |-> <<[t |-> "str", h |-> 13, s |-> "globalSet"],
                      [t |-> "str", h |-> 16, s |-> "main"],
                      [t |-> "fn", f |-> 62],
                      [t |-> "str", h |-> 16, s |-> "main"],
                      [t |-> "str", h |-> 3, s |-> "c"],
                      [t |-> "fn", f |-> 64],
                      [t |-> "str", h |-> 2, s |-> "b"],
                      [t |-> "fn", f |-> 65],
                      [t |-> "str", h |-> 1, s |-> "a"],
                      [t |-> "fn", f |-> 66],
                      [t |-> "str", h |-> 1, s |-> "a"]>>],
     [name |-> "main", arity |-> 0, upvalue_count |-> 0,
      code |-> <<OP_CONSTANT, 0, OP_CLOSURE, 1, 1, 1, OP_GET_LOCAL, 2, OP_SET_GLOBAL, 2, OP_POP, OP_NIL,
                 OP_RETURN>>,
      lines |-> <<3, 3, 3, 3, 3, 3, 3, 3, 3, 3, 3, 3, 3>>,
      constants |-> <<[t |-> "str", h |-> 12, s |-> "initial"],
                      [t |-> "fn", f |-> 63],
                      [t |-> "str", h |-> 13, s |-> "globalSet"]>>],
     [name |-> "set", arity |-> 0, upvalue_count |-> 1,
      code |-> <<OP_CONSTANT, 0, OP_SET_UPVALUE, 0, OP_POP, OP_NIL, OP_RETURN>>,
      lines |-> <<3, 3, 3, 3, 3, 3, 3>>,
      constants |-> <<[t |-> "str", h |-> 15, s |-> "updated"]>>],
     [name |-> "c", arity |-> 0, upvalue_count |-> 0,
      code |-> <<OP_GET_GLOBAL, 0, OP_CALL, 0, OP_POP, OP_CONSTANT, 1, OP_CONSTANT, 2, OP_ADD, OP_POP,
                 OP_NIL, OP_RETURN>>,
      lines |-> <<5, 5, 5, 5, 5, 5, 5, 5, 5, 5, 5, 5, 5>>,
      constants |-> <<[t |-> "str", h |-> 13, s |-> "globalSet"],
                      [t |-> "num", n |-> 1],
                      [t |-> "str", h |-> 1, s |-> "a"]>>],
     [name |-> "b", arity |-> 0, upvalue_count |-> 0,
      code |-> <<OP_GET_GLOBAL, 0, OP_CALL, 0, OP_POP, OP_NIL, OP_RETURN>>,
      lines |-> <<6, 6, 6, 6, 6, 6, 6>>,
      constants |-> <<[t |-> "str", h |-> 3, s |-> "c"]>>],
     [name |-> "a", arity |-> 0, upvalue_count |-> 0,
      code |-> <<OP_GET_GLOBAL, 0, OP_CALL, 0, OP_POP, OP_NIL, OP_RETURN>>,
      lines |-> <<7, 7, 7, 7, 7, 7, 7>>,
      constants |-> <<[t |-> "str", h |-> 2, s |-> "b"]>>]
  >>

\* print clock;  var clock = 1;
ProgShadowNative ==
  <<
     [name |-> "", arity |-> 0, upvalue_count |-> 0,
      code |-> <<OP_GET_GLOBAL, 0, OP_PRINT, OP_CONSTANT, 2, OP_DEFINE_GLOBAL, 1, OP_NIL, OP_RETURN>>,
      lines |-> <<1, 1, 1, 2, 2, 2, 2, 3, 3>>,
      constants |-> <<[t |-> "str", h |-> 24, s |-> "clock"],
                      [t |-> "str", h |-> 24, s |-> "clock"],
                      [t |-> "num", n |-> 1]>>]
  >>

\* print 2 or 3;  print 2 and 3;  print nil or 0;  print 0 and 1;  print false or "s";
\* print false and 1;  print true and nil;  print true or 1 + 1 + ... + 1;  (86 summands)
ProgLogical ==
  <<
     [name |-> "", arity |-> 0, upvalue_count |-> 0,
      code |-> <<OP_CONSTANT, 0, OP_JUMP_IF_TRUE, 0, 3, OP_POP, OP_CONSTANT, 1, OP_PRINT, OP_CONSTANT,
                 2, OP_JUMP_IF_FALSE, 0, 3, OP_POP, OP_CONSTANT, 3, OP_PRINT, OP_NIL, OP_JUMP_IF_TRUE,
                 0, 3, OP_POP, OP_CONSTANT, 4, OP_PRINT, OP_CONSTANT, 5, OP_JUMP_IF_FALSE, 0, 3, OP_POP,
                 OP_CONSTANT, 6, OP_PRINT, OP_FALSE, OP_JUMP_IF_TRUE, 0, 3, OP_POP, OP_CONSTANT, 7,
                 OP_PRINT, OP_FALSE, OP_JUMP_IF_FALSE, 0, 3, OP_POP, OP_CONSTANT, 8, OP_PRINT, OP_TRUE,
                 OP_JUMP_IF_FALSE, 0, 2, OP_POP, OP_NIL, OP_PRINT, OP_TRUE, OP_JUMP_IF_TRUE, 1, 2,
                 OP_POP, OP_CONSTANT, 9, OP_CONSTANT, 10, OP_ADD, OP_CONSTANT, 11, OP_ADD, OP_CONSTANT,
                 12, OP_ADD, OP_CONSTANT, 13, OP_ADD, OP_CONSTANT, 14, OP_ADD, OP_CONSTANT, 15, OP_ADD,
                 OP_CONSTANT, 16, OP_ADD, OP_CONSTANT, 17, OP_ADD, OP_CONSTANT, 18, OP_ADD, OP_CONSTANT,
                 19, OP_ADD, OP_CONSTANT, 20, OP_ADD, OP_CONSTANT, 21, OP_ADD, OP_CONSTANT, 22, OP_ADD,
                 OP_CONSTANT, 23, OP_ADD, OP_CONSTANT, 24, OP_ADD, OP_CONSTANT, 25, OP_ADD, OP_CONSTANT,
                 26, OP_ADD, OP_CONSTANT, 27, OP_ADD, OP_CONSTANT, 28, OP_ADD, OP_CONSTANT, 29, OP_ADD,
                 OP_CONSTANT, 30, OP_ADD, OP_CONSTANT, 31, OP_ADD, OP_CONSTANT, 32, OP_ADD, OP_CONSTANT,
                 33, OP_ADD, OP_CONSTANT, 34, OP_ADD, OP_CONSTANT, 35, OP_ADD, OP_CONSTANT, 36, OP_ADD,
                 OP_CONSTANT, 37, OP_ADD, OP_CONSTANT, 38, OP_ADD, OP_CONSTANT, 39, OP_ADD, OP_CONSTANT,
                 40, OP_ADD, OP_CONSTANT, 41, OP_ADD, OP_CONSTANT, 42, OP_ADD, OP_CONSTANT, 43, OP_ADD,
                 OP_CONSTANT, 44, OP_ADD, OP_CONSTANT, 45, OP_ADD, OP_CONSTANT, 46, OP_ADD, OP_CONSTANT,
                 47, OP_ADD, OP_CONSTANT, 48, OP_ADD, OP_CONSTANT, 49, OP_ADD, OP_CONSTANT, 50, OP_ADD,
                 OP_CONSTANT, 51, OP_ADD, OP_CONSTANT, 52, OP_ADD, OP_CONSTANT, 53, OP_ADD, OP_CONSTANT,
                 54, OP_ADD, OP_CONSTANT, 55, OP_ADD, OP_CONSTANT, 56, OP_ADD, OP_CONSTANT, 57, OP_ADD,
                 OP_CONSTANT, 58, OP_ADD, OP_CONSTANT, 59, OP_ADD, OP_CONSTANT, 60, OP_ADD, OP_CONSTANT,
                 61, OP_ADD, OP_CONSTANT, 62, OP_ADD, OP_CONSTANT, 63, OP_ADD, OP_CONSTANT, 64, OP_ADD,
                 OP_CONSTANT, 65, OP_ADD, OP_CONSTANT, 66, OP_ADD, OP_CONSTANT, 67, OP_ADD, OP_CONSTANT,
                 68, OP_ADD, OP_CONSTANT, 69, OP_ADD, OP_CONSTANT, 70, OP_ADD, OP_CONSTANT, 71, OP_ADD,
                 OP_CONSTANT, 72, OP_ADD, OP_CONSTANT, 73, OP_ADD, OP_CONSTANT, 74, OP_ADD, OP_CONSTANT,
                 75, OP_ADD, OP_CONSTANT, 76, OP_ADD, OP_CONSTANT, 77, OP_ADD, OP_CONSTANT, 78, OP_ADD,
                 OP_CONSTANT, 79, OP_ADD, OP_CONSTANT, 80, OP_ADD, OP_CONSTANT, 81, OP_ADD, OP_CONSTANT,
                 82, OP_ADD, OP_CONSTANT, 83, OP_ADD, OP_CONSTANT, 84, OP_ADD, OP_CONSTANT, 85, OP_ADD,
                 OP_CONSTANT, 86, OP_ADD, OP_CONSTANT, 87, OP_ADD, OP_CONSTANT, 88, OP_ADD, OP_CONSTANT,
                 89, OP_ADD, OP_CONSTANT, 90, OP_ADD, OP_CONSTANT, 91, OP_ADD, OP_CONSTANT, 92, OP_ADD,
                 OP_CONSTANT, 93, OP_ADD, OP_CONSTANT, 94, OP_ADD, OP_PRINT, OP_NIL, OP_RETURN>>,
      lines |-> <<1, 1, 1, 1, 1, 1, 1, 1, 1, 2, 2, 2, 2, 2, 2, 2, 2, 2, 3, 3, 3, 3, 3, 3, 3, 3, 4, 4, 4,
                  4, 4, 4, 4, 4, 4, 5, 5, 5, 5, 5, 5, 5, 5, 6, 6, 6, 6, 6, 6, 6, 6, 7, 7, 7, 7, 7, 7, 7,
                  8, 8, 8, 8, 8, 8, 8, 8, 8, 8, 8, 8, 8, 8, 8, 8, 8, 8, 8, 8, 8, 8, 8, 8, 8, 8, 8, 8, 8,
                  8, 8, 8, 8, 8, 8, 8, 8, 8, 8, 8, 8, 8, 8, 8, 8, 8, 8, 8, 8, 8, 8, 8, 8, 8, 8, 8, 8, 8,
                  8, 8, 8, 8, 8, 8, 8, 8, 8, 8, 8, 8, 8, 8, 8, 8, 8, 8, 8, 8, 8, 8, 8, 8, 8, 8, 8, 8, 8,
                  8, 8, 8, 8, 8, 8, 8, 8, 8, 8, 8, 8, 8, 8, 8, 8, 8, 8, 8, 8, 8, 8, 8, 8, 8, 8, 8, 8, 8,
                  8, 8, 8, 8, 8, 8, 8, 8, 8, 8, 8, 8, 8, 8, 8, 8, 8, 8, 8, 8, 8, 8, 8, 8, 8, 8, 8, 8, 8,
                  8, 8, 8, 8, 8, 8, 8, 8, 8, 8, 8, 8, 8, 8, 8, 8, 8, 8, 8, 8, 8, 8, 8, 8, 8, 8, 8, 8, 8,
                  8, 8, 8, 8, 8, 8, 8, 8, 8, 8, 8, 8, 8, 8, 8, 8, 8, 8, 8, 8, 8, 8, 8, 8, 8, 8, 8, 8, 8,
                  8, 8, 8, 8, 8, 8, 8, 8, 8, 8, 8, 8, 8, 8, 8, 8, 8, 8, 8, 8, 8, 8, 8, 8, 8, 8, 8, 8, 8,
                  8, 8, 8, 8, 8, 8, 8, 8, 8, 8, 8, 8, 8, 8, 8, 8, 8, 8, 8, 8, 8, 8, 8, 8, 8, 8, 8, 8, 8,
                  8, 8, 9, 9>>,
      constants |-> <<[t |-> "num", n |-> 2],
                      [t |-> "num", n |-> 3],
                      [t |-> "num", n |-> 2],
                      [t |-> "num", n |-> 3],
                      [t |-> "num", n |-> 0],
                      [t |-> "num", n |-> 0],
                      [t |-> "num", n |-> 1],
                      [t |-> "str", h |-> 37, s |-> "s"],
                      [t |-> "num", n |-> 1],
                      [t |-> "num", n |-> 1],
                      [t |-> "num", n |-> 1],
                      [t |-> "num", n |-> 1],
                      [t |-> "num", n |-> 1],
                      [t |-> "num", n |-> 1],
                      [t |-> "num", n |-> 1],
                      [t |-> "num", n |-> 1],
                      [t |-> "num", n |-> 1],
                      [t |-> "num", n |-> 1],
                      [t |-> "num", n |-> 1],
                      [t |-> "num", n |-> 1],
                      [t |-> "num", n |-> 1],
                      [t |-> "num", n |-> 1],
                      [t |-> "num", n |-> 1],
                      [t |-> "num", n |-> 1],
                      [t |-> "num", n |-> 1],
                      [t |-> "num", n |-> 1],
                      [t |-> "num", n |-> 1],
                      [t |-> "num", n |-> 1],
                      [t |-> "num", n |-> 1],
                      [t |-> "num", n |-> 1],
                      [t |-> "num", n |-> 1],
                      [t |-> "num", n |-> 1],
                      [t |-> "num", n |-> 1],
                      [t |-> "num", n |-> 1],
                      [t |-> "num", n |-> 1],
                      [t |-> "num", n |-> 1],
                      [t |-> "num", n |-> 1],
                      [t |-> "num", n |-> 1],
                      [t |-> "num", n |-> 1],
                      [t |-> "num", n |-> 1],
                      [t |-> "num", n |-> 1],
                      [t |-> "num", n |-> 1],
                      [t |-> "num", n |-> 1],
                      [t |-> "num", n |-> 1],
                      [t |-> "num", n |-> 1],
                      [t |-> "num", n |-> 1],
                      [t |-> "num", n |-> 1],
                      [t |-> "num", n |-> 1],
                      [t |-> "num", n |-> 1],
                      [t |-> "num", n |-> 1],
                      [t |-> "num", n |-> 1],
                      [t |-> "num", n |-> 1],
                      [t |-> "num", n |-> 1],
                      [t |-> "num", n |-> 1],
                      [t |-> "num", n |-> 1],
                      [t |-> "num", n |-> 1],
                      [t |-> "num", n |-> 1],
                      [t |-> "num", n |-> 1],
                      [t |-> "num", n |-> 1],
                      [t |-> "num", n |-> 1],
                      [t |-> "num", n |-> 1],
                      [t |-> "num", n |-> 1],
                      [t |-> "num", n |-> 1],
                      [t |-> "num", n |-> 1],
                      [t |-> "num", n |-> 1],
                      [t |-> "num", n |-> 1],
                      [t |-> "num", n |-> 1],
                      [t |-> "num", n |-> 1],
                      [t |-> "num", n |-> 1],
                      [t |-> "num", n |-> 1],
                      [t |-> "num", n |-> 1],
                      [t |-> "num", n |-> 1],
                      [t |-> "num", n |-> 1],
                      [t |-> "num", n |-> 1],
                      [t |-> "num", n |-> 1],
                      [t |-> "num", n |-> 1],
                      [t |-> "num", n |-> 1],
                      [t |-> "num", n |-> 1],
                      [t |-> "num", n |-> 1],
                      [t |-> "num", n |-> 1],
                      [t |-> "num", n |-> 1],
                      [t |-> "num", n |-> 1],
                      [t |-> "num", n |-> 1],
                      [t |-> "num", n |-> 1],
                      [t |-> "num", n |-> 1],
                      [t |-> "num", n |-> 1],
                      [t |-> "num", n |-> 1],
                      [t |-> "num", n |-> 1],
                      [t |-> "num", n |-> 1],
                      [t |-> "num", n |-> 1],
                      [t |-> "num", n |-> 1],
                      [t |-> "num", n |-> 1],
                      [t |-> "num", n |-> 1],
                      [t |-> "num", n |-> 1],
                      [t |-> "num", n |-> 1]>>]
  >>

\* fun f() { var a = 1; var b = 2;
\*           fun g() { b = 3; a = 4; }
\*           g(); print a; print b; }
\* f();
ProgSetSecond ==
  <<
     [name |-> "", arity |-> 0, upvalue_count |-> 0,
      code |-> <<OP_CLOSURE, 1, OP_DEFINE_GLOBAL, 0, OP_GET_GLOBAL, 2, OP_CALL, 0, OP_POP, OP_NIL,
                 OP_RETURN>>,
      lines |-> <<3, 3, 3, 3, 4, 4, 4, 4, 4, 5, 5>>,
      constants |-> <<[t |-> "str", h |-> 18, s |-> "f"],
                      [t |-> "fn", f |-> 70],
                      [t |-> "str", h |-> 18, s |-> "f"]>>],
     [name |-> "f", arity |-> 0, upvalue_count |-> 0,
      code |-> <<OP_CONSTANT, 0, OP_CONSTANT, 1, OP_CLOSURE, 2, 1, 2, 1, 1, OP_GET_LOCAL, 3, OP_CALL, 0,
                 OP_POP, OP_GET_LOCAL, 1, OP_PRINT, OP_GET_LOCAL, 2, OP_PRINT, OP_NIL, OP_RETURN>>,
      lines |-> <<1, 1, 1, 1, 2, 2, 2, 2, 2, 2, 3, 3, 3, 3, 3, 3, 3, 3, 3, 3, 3, 3, 3>>,
      constants |-> <<[t |-> "num", n |-> 1],
                      [t |-> "num", n |-> 2],
                      [t |-> "fn", f |-> 71]>>],
     [name |-> "g", arity |-> 0, upvalue_count |-> 2,
      code |-> <<OP_CONSTANT, 0, OP_SET_UPVALUE, 0, OP_POP, OP_CONSTANT, 1, OP_SET_UPVALUE, 1, OP_POP,
                 OP_NIL, OP_RETURN>>,
      lines |-> <<2, 2, 2, 2, 2, 2, 2, 2, 2, 2, 2, 2>>,
      constants |-> <<[t |-> "num", n |-> 3],
                      [t |-> "num", n |-> 4]>>]
  >>

\* fun f() { var a = 1;
\*           { var b = 2; fun g() { return b; } fun h() { return a; }
\*           } }
\* f();
ProgCloseInner ==
  <<
     [name |-> "", arity |-> 0, upvalue_count |-> 0,
      code |-> <<OP_CLOSURE, 1, OP_DEFINE_GLOBAL, 0, OP_GET_GLOBAL, 2, OP_CALL, 0, OP_POP, OP_NIL,
                 OP_RETURN>>,
      lines |-> <<4, 4, 4, 4, 5, 5, 5, 5, 5, 6, 6>>,
      constants |-> <<[t |-> "str", h |-> 18, s |-> "f"],
                      [t |-> "fn", f |-> 73],
                      [t |-> "str", h |-> 18, s |-> "f"]>>],
     [name |-> "f", arity |-> 0, upvalue_count |-> 0,
      code |-> <<OP_CONSTANT, 0, OP_CONSTANT, 1, OP_CLOSURE, 2, 1, 2, OP_CLOSURE, 3, 1, 1, OP_POP,
                 OP_POP, OP_CLOSE_UPVALUE, OP_NIL, OP_RETURN>>,
      lines |-> <<1, 1, 2, 2, 2, 2, 2, 2, 2, 2, 2, 2, 3, 3, 3, 4, 4>>,
      constants |-> <<[t |-> "num", n |-> 1],
                      [t |-> "num", n |-> 2],
                      [t |-> "fn", f |-> 74],
                      [t |-> "fn", f |-> 75]>>],
     [name |-> "g", arity |-> 0, upvalue_count |-> 1,
      code |-> <<OP_GET_UPVALUE, 0, OP_RETURN, OP_NIL, OP_RETURN>>,
      lines |-> <<2, 2, 2, 2, 2>>,
      constants |-> <<>>],
     [name |-> "h", arity |-> 0, upvalue_count |-> 1,
      code |-> <<OP_GET_UPVALUE, 0, OP_RETURN, OP_NIL, OP_RETURN>>,
      lines |-> <<2, 2, 2, 2, 2>>,
      constants |-> <<>>]
  >>

\* print -(2 - 6) * 3 / 2;  print 1 < 2;  print 2 <= 1;  print 2 > 1;  print 1 >= 2;
ProgArithmetic ==
  <<
     [name |-> "", arity |-> 0, upvalue_count |-> 0,
      code |-> <<OP_CONSTANT, 0, OP_CONSTANT, 1, OP_SUBTRACT, OP_NEGATE, OP_CONSTANT, 2, OP_MULTIPLY,
                 OP_CONSTANT, 3, OP_DIVIDE, OP_PRINT, OP_CONSTANT, 4, OP_CONSTANT, 5, OP_LESS, OP_PRINT,
                 OP_CONSTANT, 6, OP_CONSTANT, 7, OP_LESS_EQUAL, OP_PRINT, OP_CONSTANT, 8, OP_CONSTANT,
                 9, OP_GREATER, OP_PRINT, OP_CONSTANT, 10, OP_CONSTANT, 11, OP_GREATER_EQUAL, OP_PRINT,
                 OP_NIL, OP_RETURN>>,
      lines |-> <<1, 1, 1, 1, 1, 1, 1, 1, 1, 1, 1, 1, 1, 2, 2, 2, 2, 2, 2, 3, 3, 3, 3, 3, 3, 4, 4, 4, 4,
                  4, 4, 5, 5, 5, 5, 5, 5, 6, 6>>,
      constants |-> <<[t |-> "num", n |-> 2],
                      [t |-> "num", n |-> 6],
                      [t |-> "num", n |-> 3],
                      [t |-> "num", n |-> 2],
                      [t |-> "num", n |-> 1],
                      [t |-> "num", n |-> 2],
                      [t |-> "num", n |-> 2],
                      [t |-> "num", n |-> 1],
                      [t |-> "num", n |-> 2],
                      [t |-> "num", n |-> 1],
                      [t |-> "num", n |-> 1],
                      [t |-> "num", n |-> 2]>>]
  >>

\* 7 ... -"a";   (7 is a local below the operand)
ProgNegateString ==
  <<
     [name |-> "", arity |-> 0, upvalue_count |-> 0,
      code |-> <<OP_CONSTANT, 0, OP_CONSTANT, 1, OP_NEGATE, OP_POP, OP_NIL, OP_RETURN>>,
      lines |-> <<1, 1, 1, 1, 1, 1, 2, 2>>,
      constants |-> <<[t |-> "num", n |-> 7],
                      [t |-> "str", h |-> 1, s |-> "a"]>>]
  >>

\* 1 - "a";
ProgSubtractString ==
  <<
     [name |-> "", arity |-> 0, upvalue_count |-> 0,
      code |-> <<OP_CONSTANT, 0, OP_CONSTANT, 1, OP_SUBTRACT, OP_POP, OP_NIL, OP_RETURN>>,
      lines |-> <<1, 1, 1, 1, 1, 1, 2, 2>>,
      constants |-> <<[t |-> "num", n |-> 1],
                      [t |-> "str", h |-> 1, s |-> "a"]>>]
  >>

\* "a" * 1;
ProgMultiplyString ==
  <<
     [name |-> "", arity |-> 0, upvalue_count |-> 0,
      code |-> <<OP_CONSTANT, 0, OP_CONSTANT, 1, OP_MULTIPLY, OP_POP, OP_NIL, OP_RETURN>>,
      lines |-> <<1, 1, 1, 1, 1, 1, 2, 2>>,
      constants |-> <<[t |-> "str", h |-> 1, s |-> "a"],
                      [t |-> "num", n |-> 1]>>]
  >>

\* nil / 2;
ProgDivideNil ==
  <<
     [name |-> "", arity |-> 0, upvalue_count |-> 0,
      code |-> <<OP_NIL, OP_CONSTANT, 0, OP_DIVIDE, OP_POP, OP_NIL, OP_RETURN>>,
      lines |-> <<1, 1, 1, 1, 1, 2, 2>>,
      constants |-> <<[t |-> "num", n |-> 2]>>]
  >>

\* 1 < "a";
ProgLessString ==
  <<
     [name |-> "", arity |-> 0, upvalue_count |-> 0,
      code |-> <<OP_CONSTANT, 0, OP_CONSTANT, 1, OP_LESS, OP_POP, OP_NIL, OP_RETURN>>,
      lines |-> <<1, 1, 1, 1, 1, 1, 2, 2>>,
      constants |-> <<[t |-> "num", n |-> 1],
                      [t |-> "str", h |-> 1, s |-> "a"]>>]
  >>

\* true <= 1;
ProgLessEqualBool ==
  <<
     [name |-> "", arity |-> 0, upvalue_count |-> 0,
      code |-> <<OP_TRUE, OP_CONSTANT, 0, OP_LESS_EQUAL, OP_POP, OP_NIL, OP_RETURN>>,
      lines |-> <<1, 1, 1, 1, 1, 2, 2>>,
      constants |-> <<[t |-> "num", n |-> 1]>>]
  >>

\* "a" > "b";
ProgGreaterStrings ==
  <<
     [name |-> "", arity |-> 0, upvalue_count |-> 0,
      code |-> <<OP_CONSTANT, 0, OP_CONSTANT, 1, OP_GREATER, OP_POP, OP_NIL, OP_RETURN>>,
      lines |-> <<1, 1, 1, 1, 1, 1, 2, 2>>,
      constants |-> <<[t |-> "str", h |-> 1, s |-> "a"],
                      [t |-> "str", h |-> 2, s |-> "b"]>>]
  >>

\* 1 >= nil;
ProgGreaterEqualNil ==
  <<
     [name |-> "", arity |-> 0, upvalue_count |-> 0,
      code |-> <<OP_CONSTANT, 0, OP_NIL, OP_GREATER_EQUAL, OP_POP, OP_NIL, OP_RETURN>>,
      lines |-> <<1, 1, 1, 1, 1, 2, 2>>,
      constants |-> <<[t |-> "num", n |-> 1]>>]
  >>

\* { var a = 1; fun g() { return a; } -"x"; }
ProgErrorOpenUpvalue ==
  <<
     [name |-> "", arity |-> 0, upvalue_count |-> 0,
      code |-> <<OP_CONSTANT, 0, OP_CLOSURE, 1, 1, 1, OP_CONSTANT, 2, OP_NEGATE, OP_POP, OP_POP,
                 OP_CLOSE_UPVALUE, OP_NIL, OP_RETURN>>,
      lines |-> <<1, 1, 1, 1, 1, 1, 1, 1, 1, 1, 1, 1, 2, 2>>,
      constants |-> <<[t |-> "num", n |-> 1],
                      [t |-> "fn", f |-> 86],
                      [t |-> "str", h |-> 35, s |-> "x"]>>],
     [name |-> "g", arity |-> 0, upvalue_count |-> 1,
      code |-> <<OP_GET_UPVALUE, 0, OP_RETURN, OP_NIL, OP_RETURN>>,
      lines |-> <<1, 1, 1, 1, 1>>,
      constants |-> <<>>]
  >>


\* Every function the compiler produced, in one table; Scripts are the main functions.
Functions ==
    ProgCallError \o ProgCallSuccess \o ProgClosureReturned \o ProgSiblingClosures
        \o ProgStackOverflow \o ProgCaptureOrder \o ProgStrings \o ProgNestedClosures
        \o ProgClobberedCaller \o ProgClobberedFrame \o ProgPropertyChain
        \o ProgNatives \o ProgClassInit \o ProgClassFields
        \o ProgBlockUndefined \o ProgGlobals \o ProgAddMismatch
        \o ProgClobberedGet \o ProgClobberedSet \o ProgClobberedAdd
        \o ProgShadowNative \o ProgLogical \o ProgSetSecond
        \o ProgCloseInner \o ProgArithmetic \o ProgNegateString \o ProgSubtractString
        \o ProgMultiplyString \o ProgDivideNil \o ProgLessString \o ProgLessEqualBool
        \o ProgGreaterStrings \o ProgGreaterEqualNil \o ProgErrorOpenUpvalue

Scripts == {f \in 1..Len(Functions) : Functions[f].name = ""}

\* Handles of the interned string constants; alloc returns handles above them.
InternedHandles ==
    UNION {{Functions[f].constants[k].h :
                k \in {j \in 1..Len(Functions[f].constants) :
                          Functions[f].constants[j].t = "str"}} : f \in 1..Len(Functions)}

InternedCount == Cardinality(InternedHandles)

\* The main function the compiler returns for a program.
main_function_of(program) == CHOOSE f \in Scripts : Functions[f] = program[1]

VARIABLES
    stack,            \* [Value; STACK_SIZE]
    stack_top,        \* usize
    call_frames,      \* Vec<CallFrame>; self.ip points at the last frame's ip
    current_function, \* run's local current_function (and current_chunk), 0 outside run
    runtime_values,   \* globals: name -> Value
    up_values,        \* LinkedList<GCObjectOf<Upvalue>>, front first
    upvalue_heap,     \* the Upvalue objects the allocator made, by handle
    closures,         \* the Closure objects the allocator made, by handle
    strings,          \* number of strings the VM allocated at run time
    output,           \* what PRINT wrote, one element per line
    status,           \* "idle", "running", "ok" (Ok(())), "error" (Err), "panic"
    error,            \* the ErrorKind::RuntimeError interpret returned
    runs,             \* interpret calls so far
    history,          \* per interpret call: its script, the VM it started on, how the call before ended
    \* evie_memory: ObjectAllocator
    bytes_allocated,  \* Cell<usize>
    interned_strings, \* HashMap<Box<str>, InternedValue>: contents -> (string, object)
    boxes,            \* the heap: address -> what Box::new put there, or Freed
    returned,         \* the last call on the allocator and what it returned
    \* evie_memory: Chunk
    code,             \* Memory<ByteUnit>
    constants,        \* Memory<Value>
    lines,            \* Vec<usize>
    given,            \* for each item of code, the line write_chunk was given with it
    added,            \* the last add_constant call: its value and the index it returned
    \* evie: main and Runner
    pc,               \* where the process is: "start", "read", "interpret", "exited"
    stdin,            \* the lines standard input still holds
    input_line,       \* repl's line, as read_line left it
    bytes_read,       \* repl's bytes: what read_line returned
    interpreted,      \* the sources handed to run_vm, in order
    stderr,           \* what print_error wrote
    exit_code,        \* the exit code of the process (0 until it exits)
    \* evie_instructions: disassemble_chunk_with_writer
    listed,           \* chunk: the function of the table being disassembled (0: none)
    pretty,           \* pretty
    next_offset,      \* offset
    writer,           \* writer: the name line, then what each turn of the loop wrote
    \* evie_memory: Value
    constructed,      \* the last Value constructed, and from what
    extracted,        \* the last as_* call on it: what it returned, or that it panicked
    objects,          \* Objects::objects, the hash map: key -> Option<V>
    cached_values,    \* Objects::cached_values, the Cache's vector of items
    inserted,         \* for each key, the value of the most recent Objects::insert
    called            \* the last call made on the Objects

\* The state of the virtual machine.
machine == <<stack, stack_top, call_frames, current_function, runtime_values, up_values,
             upvalue_heap, closures, strings, output, status, error, runs, history>>

allocator_vars == <<bytes_allocated, interned_strings, boxes, returned>>

\* The state of the library components, which the virtual machine's run leaves alone.
chunk_vars == <<code, constants, lines, given, added>>

evie_vars == <<pc, stdin, input_line, bytes_read, interpreted, stderr, exit_code>>

disassembler_vars == <<listed, pretty, next_offset, writer>>

value_vars == <<constructed, extracted>>

objects_vars == <<objects, cached_values, inserted, called>>

library == <<allocator_vars, chunk_vars, evie_vars, disassembler_vars, value_vars, objects_vars>>

vars == <<machine, library>>

\* What the operations of each component leave alone.
outside_allocator == <<machine, chunk_vars, evie_vars, disassembler_vars, value_vars, objects_vars>>

outside_chunk == <<machine, allocator_vars, evie_vars, disassembler_vars, value_vars, objects_vars>>

outside_evie == <<machine, allocator_vars, chunk_vars, disassembler_vars, value_vars, objects_vars>>

outside_disassembler == <<machine, allocator_vars, chunk_vars, evie_vars, value_vars, objects_vars>>

outside_objects == <<machine, allocator_vars, chunk_vars, evie_vars, disassembler_vars, value_vars>>

outside_value == <<machine, allocator_vars, chunk_vars, evie_vars, disassembler_vars, objects_vars>>

NoError == [line |-> 0, message |-> "", trace |-> <<>>]

----------------------------------------------------------------------------
(***************************************************************************)
(* Helpers of VirtualMachine.                                               *)
(***************************************************************************)
CallFrame(fn_start_stack_index) ==
    [fn_start_stack_index |-> fn_start_stack_index, ip |-> 0]

call_frame == call_frames[Len(call_frames)]

ip == call_frame.ip

\* get_stack / set_stack_mut: assert!(index < STACK_SIZE, "Stack overflow")
stack_index_assert(index) == index < STACK_SIZE

closure_from_stack(index) == closures[stack[index].c]

current_closure == closure_from_stack(call_frame.fn_start_stack_index)

\* closure_from_stack(index) is Ok: the slot holds a closure.
closure_on_stack(index) == stack_index_assert(index) /\ stack[index].t = "closure"

\* run's local current_chunk: the chunk of the function it last switched to.
current_chunk == Functions[current_function]

read_byte_at(chunk, i) == chunk.code[i + 1]

\* read_short with the two bytes in the wrong order.
read_short_little_endian(chunk, i) == read_byte_at(chunk, i + 1) * 256 + read_byte_at(chunk, i)

\* read_short: first << 8 | second
read_short(chunk, i) == read_byte_at(chunk, i) * 256 + read_byte_at(chunk, i + 1)

read_constant_at(chunk, i) == chunk.constants[read_byte_at(chunk, i) + 1]

\* Memory::read_item_at: assert!(index < self.inner.len())
read_item_assert(chunk, i) == read_byte_at(chunk, i) < Len(chunk.constants)

\* The byte run's read_byte decodes next, and the operand bytes after it.
instruction == read_byte_at(current_chunk, ip)

Operand(k) == read_byte_at(current_chunk, ip + k)

\* call_frames once the handler has read the opcode and n - 1 operand bytes.
Advance(n) == [call_frames EXCEPT ![Len(call_frames)].ip = ip + n]

\* peek_at(distance) reads stack[stack_top - 1 - distance]; the subtraction
\* underflows (or get_stack's assert fails) when the slot does not exist.
peek_ok(distance) == stack_top - 1 - distance >= 0 /\ stack_top - 1 - distance < STACK_SIZE

peek_at(distance) == stack[stack_top - 1 - distance]

\* push: assert!(self.stack_top < STACK_SIZE)
push_assert(top) == top < STACK_SIZE

\* pop: self.stack_top -= 1; assert!(self.stack_top < STACK_SIZE)
pop_assert(top) == top - 1 >= 0 /\ top - 1 < STACK_SIZE

is_falsey(value) ==
    CASE value.t = "bool" -> ~value.b
      [] value.t = "nil" -> TRUE
      [] OTHER -> FALSE

num_equals(l, r) == l = r

value_equals(l, r) ==
    CASE l.t = "bool" /\ r.t = "bool" -> l.b = r.b
      [] l.t = "nil" /\ r.t = "nil" -> TRUE
      [] l.t = "num" /\ r.t = "num" -> num_equals(l.n, r.n)
      [] l.t = "str" /\ r.t = "str" -> l.h = r.h \/ l.s = r.s
      [] OTHER -> FALSE

FunctionToString(function) ==
    IF function.name = "" THEN "<fn script>" ELSE "<fn " \o function.name \o ">"

\* A Display for Value that writes the address of a string after its contents.
ValueToString_with_address(value) ==
    IF value.t = "str" THEN value.s \o "@" \o ToString(value.h) ELSE value.t

\* Display for Value, as print_value writes it.
ValueToString(value) ==
    CASE value.t = "nil" -> "nil"
      [] value.t = "bool" -> IF value.b THEN "true" ELSE "false"
      [] value.t = "num" -> ToString(value.n)
      [] value.t = "str" -> value.s
      [] value.t = "closure" -> FunctionToString(Functions[closures[value.c].function])
      [] value.t = "fn" -> FunctionToString(Functions[value.f])
      [] value.t = "native" -> "native <fn " \o value.name \o ">"

(***************************************************************************)
(* check_arguments: Ok for a user function called with arity arguments;    *)
(* the arm of Function::Native checks nothing.                             *)
(***************************************************************************)
is_native(function) == "t" \in DOMAIN function /\ function.t = "native"

check_arguments(function, arg_count) ==
    IF is_native(function) THEN TRUE ELSE function.arity = arg_count

ArityMessage(function, arg_count) ==
    "Expected " \o ToString(function.arity) \o " arguments but got " \o ToString(arg_count)

(***************************************************************************)
(* runtime_error: the message, then one line per call frame from the last  *)
(* frame to the first, then the line of the instruction at self.ip.        *)
(* frames is call_frames with the ip the handler has advanced to.          *)
(***************************************************************************)
FrameFunction(frame) ==
    Functions[closure_from_stack(frame.fn_start_stack_index).function]

TraceLine(frame) ==
    "[line " \o ToString(FrameFunction(frame).lines[frame.ip + 1]) \o "] in "
        \o FunctionToString(FrameFunction(frame))

\* closure_from_stack fails on a slot that holds no closure and lines[ip]
\* panics past the end of lines; runtime_error returns only if neither happens.
runtime_error_returns(frames) ==
    \A k \in 1..Len(frames) :
        /\ closure_on_stack(frames[k].fn_start_stack_index)
        /\ frames[k].ip < Len(FrameFunction(frames[k]).lines)

runtime_error(message, frames) ==
    [line |-> FrameFunction(frames[Len(frames)]).lines[frames[Len(frames)].ip + 1],
     message |-> message,
     trace |-> [k \in 1..Len(frames) |-> TraceLine(frames[Len(frames) + 1 - k])]]

(***************************************************************************)
(* close_upvalues(last_index): walks up_values from the back while the     *)
(* entry is Stack(index) with index >= last_index, sets each such entry to *)
(* Heap(Value::Nil) and splits the walked entries off the list.            *)
(***************************************************************************)
RECURSIVE close_count(_, _, _)
close_count(list, heap, last_index) ==
    IF list = <<>> THEN 0
    ELSE LET u == heap[list[Len(list)]] IN
         IF u.location.kind = "Stack" /\ u.location.index >= last_index
         THEN 1 + close_count(SubSeq(list, 1, Len(list) - 1), heap, last_index)
         ELSE 0

\* The value close_upvalues stores in the closed upvalue (slot_value is what
\* the stack slot holds; the get_stack call that would read it is commented out).
closed_value(slot_value) == Nil

close_upvalues(list, heap, last_index) ==
    LET count == close_count(list, heap, last_index)
        closed == {list[k] : k \in (Len(list) - count + 1)..Len(list)}
    IN [up_values |-> SubSeq(list, 1, Len(list) - count),
        upvalue_heap |->
            [h \in DOMAIN heap |->
                IF h \in closed
                THEN [location |-> LocationHeap(closed_value(stack[heap[h].location.index]))]
                ELSE heap[h]]]

(***************************************************************************)
(* capture_upvalue(stack_index): from the back, take entries while they    *)
(* are Stack(index) with index >= stack_index and find index = stack_index *)
(* among them; otherwise allocate Upvalue{Stack(stack_index)}, push_back.  *)
(* Returns the handle and the new list and heap.                           *)
(***************************************************************************)
RECURSIVE find_captured(_, _, _)
find_captured(list, heap, stack_index) ==
    IF list = <<>> THEN 0
    ELSE LET h == list[Len(list)]
             location == heap[h].location
         IN IF location.kind = "Stack" /\ location.index >= stack_index
            THEN IF location.index = stack_index
                 THEN h
                 ELSE find_captured(SubSeq(list, 1, Len(list) - 1), heap, stack_index)
            ELSE 0

capture_upvalue(list, heap, stack_index) ==
    LET found == find_captured(list, heap, stack_index) IN
    IF found # 0
    THEN [handle |-> found, up_values |-> list, upvalue_heap |-> heap]
    ELSE [handle |-> Len(heap) + 1,
          up_values |-> Append(list, Len(heap) + 1),
          upvalue_heap |-> Append(heap, [location |-> LocationStack(stack_index)])]

(***************************************************************************)
(* The upvalue loop of Opcode::Closure: for k in 0..upvalue_count read      *)
(* (is_local, index) at offset and push a copy of the captured Upvalue, or *)
(* of the enclosing closure's upvalue, onto the new closure's vector.  A   *)
(* copy keeps no link to the object it was copied from; origin records the *)
(* handle of that object so that "captures the same variable" can be said. *)
(***************************************************************************)
\* Variant of closure_upvalues whose loop runs over 1..upvalue_count.
RECURSIVE closure_upvalues_from_one(_, _, _, _)
closure_upvalues_from_one(k, offset, acc, upvalue_count) ==
    IF k + 1 >= upvalue_count THEN acc
    ELSE LET is_local == read_byte_at(current_chunk, offset) > 0
             index == read_byte_at(current_chunk, offset + 1)
         IN IF is_local
            THEN LET captured == capture_upvalue(acc.up_values, acc.upvalue_heap,
                                     call_frame.fn_start_stack_index + index)
                 IN closure_upvalues_from_one(k + 1, offset + 2,
                        [upvalues |-> Append(acc.upvalues,
                            [location |-> captured.upvalue_heap[captured.handle].location,
                             origin |-> captured.handle]),
                         up_values |-> captured.up_values,
                         upvalue_heap |-> captured.upvalue_heap],
                        upvalue_count)
            ELSE closure_upvalues_from_one(k + 1, offset + 2,
                        [acc EXCEPT !.upvalues =
                            Append(@, current_closure.upvalues[index + 1])],
                        upvalue_count)

RECURSIVE closure_upvalues(_, _, _, _)
closure_upvalues(k, offset, acc, upvalue_count) ==
    IF k = upvalue_count THEN acc
    ELSE LET is_local == read_byte_at(current_chunk, offset) > 0
             index == read_byte_at(current_chunk, offset + 1)
         IN IF is_local
            THEN LET captured == capture_upvalue(acc.up_values, acc.upvalue_heap,
                                     call_frame.fn_start_stack_index + index)
                 IN closure_upvalues(k + 1, offset + 2,
                        [upvalues |-> Append(acc.upvalues,
                            [location |-> captured.upvalue_heap[captured.handle].location,
                             origin |-> captured.handle]),
                         up_values |-> captured.up_values,
                         upvalue_heap |-> captured.upvalue_heap],
                        upvalue_count)
            ELSE closure_upvalues(k + 1, offset + 2,
                        [acc EXCEPT !.upvalues =
                            Append(@, current_closure.upvalues[index + 1])],
                        upvalue_count)

----------------------------------------------------------------------------
(***************************************************************************)
(* evie_memory: ObjectAllocator (evie_memory/src/lib.rs).  A handle        *)
(* GCObjectOf<T> is the address Box::new returned; the global allocator    *)
(* may hand out any address that holds no live box, a freed one included.  *)
(***************************************************************************)
\* Number of addresses the heap has.
MaxAddresses == 2

Addresses == 1..MaxAddresses

\* Contents of the strings handed to the allocator.
Contents == {"a", "b"}

\* The types T that alloc::<T> and free::<T> are instantiated with.
Types == {"Box<str>", "Object", "Value"}

\* std::mem::size_of::<T>() on a 64-bit target (objects.rs tests::value_size).
size_of(type) ==
    CASE type = "Box<str>" -> 16
      [] type = "Object" -> 32
      [] type = "Value" -> 16

Freed == [type |-> "freed"]

Live == {a \in Addresses : boxes[a] # Freed}

\* The boxes T can be: a string, an Object of ObjectType::String, a Value.
Boxes ==
    [type : {"Box<str>"}, s : Contents]
        \cup [type : {"Object"}, string : {a \in Live : boxes[a].type = "Box<str>"}]
        \cup [type : {"Value"}]

\* InternedValue(string, None)
InternedValue(string) == [string |-> string, object |-> 0]

NoCall == [op |-> "new", arg |-> 0, result |-> 0, panicked |-> FALSE]

\* ObjectAllocator::new
AllocatorInit ==
    /\ bytes_allocated = 0
    /\ interned_strings = <<>>
    /\ boxes = [a \in Addresses |-> Freed]
    /\ returned = NoCall

allocator_running == ~returned.panicked

\* decrement_allocated_bytes_by that takes nothing off the counter.
decrement_allocated_bytes_by_nothing(bytes) == bytes_allocated

increment_allocated_bytes_by(bytes) == bytes_allocated + bytes

decrement_allocated_bytes_by(bytes) == bytes_allocated - bytes

\* alloc(object): Box::new(object) at address, counted with size_of::<T>().
alloc(object, address, op, arg) ==
    /\ boxes' = [boxes EXCEPT ![address] = object]
    /\ bytes_allocated' = increment_allocated_bytes_by(size_of(object.type))
    /\ returned' = [op |-> op, arg |-> arg, result |-> address, panicked |-> FALSE]

Alloc ==
    /\ allocator_running
    /\ UNCHANGED outside_allocator
    /\ \E object \in Boxes, address \in Addresses \ Live :
         /\ alloc(object, address, "alloc", 0)
         /\ UNCHANGED interned_strings

\* free(object_of), called as its safety contract asks: on a box not yet freed.
Free ==
    /\ allocator_running
    /\ UNCHANGED outside_allocator
    /\ \E address \in Live :
         /\ IF bytes_allocated >= size_of(boxes[address].type)
            THEN /\ bytes_allocated' = decrement_allocated_bytes_by(size_of(boxes[address].type))
                 /\ returned' = [op |-> "free", arg |-> address, result |-> 0, panicked |-> FALSE]
            ELSE /\ bytes_allocated' = bytes_allocated
                 /\ returned' = [op |-> "free", arg |-> address, result |-> 0, panicked |-> TRUE]
         /\ boxes' = [boxes EXCEPT ![address] = Freed]
         /\ UNCHANGED interned_strings

\* A lookup in the table that never finds the contents.
interned_never(object) == FALSE

\* interned_strings.get(&object) is Some
interned(object) == object \in DOMAIN interned_strings

\* alloc_interned_str(object): the handle the table has for these contents, or
\* a new string that is entered in the table.
AllocInternedStr ==
    /\ allocator_running
    /\ UNCHANGED outside_allocator
    /\ \E object \in Contents :
         IF interned(object)
         THEN /\ returned' = [op |-> "alloc_interned_str", arg |-> object,
                              result |-> interned_strings[object].string, panicked |-> FALSE]
              /\ UNCHANGED <<bytes_allocated, boxes, interned_strings>>
         ELSE \E address \in Addresses \ Live :
                /\ alloc([type |-> "Box<str>", s |-> object], address,
                         "alloc_interned_str", object)
                /\ interned_strings' = (object :> InternedValue(address)) @@ interned_strings

\* alloc_interned_object(object): looks the contents of the string up; the
\* Object is made on the first call and kept in the table.
AllocInternedObject ==
    /\ allocator_running
    /\ UNCHANGED outside_allocator
    /\ \E object \in {a \in Live : boxes[a].type = "Box<str>"} :
         LET contents == boxes[object].s IN
         IF contents \in DOMAIN interned_strings
         THEN IF interned_strings[contents].object # 0
              THEN /\ returned' = [op |-> "alloc_interned_object", arg |-> object,
                                   result |-> interned_strings[contents].object, panicked |-> FALSE]
                   /\ UNCHANGED <<bytes_allocated, boxes, interned_strings>>
              ELSE \E address \in Addresses \ Live :
                     /\ alloc([type |-> "Object",
                               string |-> interned_strings[contents].string],
                              address, "alloc_interned_object", object)
                     /\ interned_strings' =
                            [interned_strings EXCEPT ![contents].object = address]
         ELSE /\ returned' = [op |-> "alloc_interned_object", arg |-> object,
                              result |-> 0, panicked |-> TRUE]
              /\ UNCHANGED <<bytes_allocated, boxes, interned_strings>>

AllocatorNext == Alloc \/ Free \/ AllocInternedStr \/ AllocInternedObject

----------------------------------------------------------------------------
(***************************************************************************)
(* evie_memory: Chunk (evie_memory/src/chunk.rs), as the compiler or a     *)
(* test fills one: write_chunk, add_constant, free_code, free_data and     *)
(* free_all in any order.                                                  *)
(***************************************************************************)
\* Number of write_chunk calls made on one chunk.
MaxCode == 2

\* Number of constants added to one chunk before the caller stops.
MaxConstants == 257

\* The first MaxVaried constants are nil or a number, the later ones numbers.
MaxVaried == 1

\* ByteUnit = u8 (evie_common/src/lib.rs:38): `as ByteUnit` keeps the low 8 bits.
as_ByteUnit(n) == n % 256

\* Memory::item_count
item_count(memory) == Len(memory)

\* The values the caller adds as constant number n (counted from 0).
Offered(n) == IF n < MaxVaried THEN {[t |-> "nil"], [t |-> "num", n |-> n]}
              ELSE {[t |-> "num", n |-> n]}

NotAdded == [called |-> FALSE, value |-> [t |-> "nil"], index |-> 0]

\* Chunk::new
ChunkInit ==
    /\ code = <<>>
    /\ constants = <<>>
    /\ lines = <<>>
    /\ given = <<>>
    /\ added = NotAdded

\* add_constant(value): write_item, then (item_count - 1) as ByteUnit.
AddConstant ==
    /\ item_count(constants) < MaxConstants
    /\ \E value \in Offered(item_count(constants)) :
         /\ constants' = Append(constants, value)
         /\ added' = [called |-> TRUE, value |-> value,
                      index |-> as_ByteUnit(item_count(constants') - 1)]
    /\ UNCHANGED <<code, lines, given, outside_chunk>>

\* write_chunk(byte, line)
WriteChunk ==
    /\ Len(lines) < MaxCode
    /\ \E byte \in {OP_NIL, OP_RETURN}, line \in {1, 2} :
         /\ code' = Append(code, byte)
         /\ lines' = Append(lines, line)
         /\ given' = Append(given, line)
    /\ UNCHANGED <<constants, added, outside_chunk>>

\* free_code: self.code.free_items()
FreeCode ==
    /\ code' = <<>>
    /\ given' = <<>>
    /\ UNCHANGED <<constants, lines, added, outside_chunk>>

\* free_data: self.constants.free_items()
FreeData ==
    /\ constants' = <<>>
    /\ UNCHANGED <<code, lines, given, added, outside_chunk>>

\* free_all: free_code, then free_data
FreeAll ==
    /\ code' = <<>>
    /\ given' = <<>>
    /\ constants' = <<>>
    /\ UNCHANGED <<lines, added, outside_chunk>>

ChunkNext == AddConstant \/ WriteChunk \/ FreeCode \/ FreeData \/ FreeAll

----------------------------------------------------------------------------
(***************************************************************************)
(* evie: main (evie/src/main.rs) and Runner (evie/src/runner.rs).  main    *)
(* calls runner.run_prompt and runner.run_script_with_exit_code; Runner    *)
(* has repl and run_script, which are what is modelled here.  A line is a  *)
(* sequence of characters; what interpret returns for a source is an input *)
(* of the model.                                                           *)
(***************************************************************************)
\* Number of lines standard input holds before its end.
MaxLines == 1

\* Number of characters of a line.
MaxLine == 1

\* Number of sources the REPL hands to the VM before the model stops it.
MaxInterpreted == 3

Characters == {"p", ";", " "}

Lines == UNION {[1..n -> Characters] : n \in 0..MaxLine}

Inputs == UNION {[1..n -> Lines] : n \in 0..MaxLines}

\* What interpret, File::open and read_to_string may return.
Outcomes == {"Ok", "ScanError", "ParseError", "ResolutionError", "RuntimeError"}

RECURSIVE trim_start(_)
trim_start(s) == IF s # <<>> /\ Head(s) = " " THEN trim_start(Tail(s)) ELSE s

RECURSIVE trim_end(_)
trim_end(s) ==
    IF s # <<>> /\ s[Len(s)] = " " THEN trim_end(SubSeq(s, 1, Len(s) - 1)) ELSE s

\* str::trim
trim(s) == trim_end(trim_start(s))

\* with_semi_colon(line)
with_semi_colon(s) == IF s # <<>> /\ s[Len(s)] = ";" THEN s ELSE Append(s, ";")

\* print_error(e, stderr): the class tag written for e.
print_error(e) ==
    CASE e = "ScanError" -> "[Scan Error]"
      [] e = "ParseError" -> "[Parse Error]"
      [] e = "ResolutionError" -> "[Resolution Error]"
      [] e = "RuntimeError" -> "[Runtime Error]"
      [] OTHER -> "Unknown"

EvieInit ==
    /\ pc = "start"
    /\ stdin = <<>>
    /\ input_line = <<>>
    /\ bytes_read = 0
    /\ interpreted = <<>>
    /\ stderr = <<>>
    /\ exit_code = 0

\* main's end: the result is matched, an Err is printed, and main returns Ok(()).
main_returns(result) ==
    /\ pc' = "exited"
    /\ stderr' = IF result = "Ok" THEN stderr ELSE Append(stderr, print_error(result))
    /\ exit_code' = 0

\* main with one argument: the script is opened, read and interpreted.
\* opened is what File::open and read_to_string return, result what run_vm does.
RunScript ==
    /\ pc = "start"
    /\ \E opened \in {"Ok", "Io"}, source \in Lines, result \in Outcomes :
         IF opened # "Ok"
         THEN main_returns(opened) /\ interpreted' = interpreted
         ELSE IF source = <<>>
         THEN main_returns("Ok") /\ interpreted' = interpreted
         ELSE main_returns(result) /\ interpreted' = Append(interpreted, source)
    /\ UNCHANGED <<stdin, input_line, bytes_read, outside_evie>>

\* main with more arguments: print_help.
PrintHelp ==
    /\ pc = "start"
    /\ main_returns("Ok")
    /\ UNCHANGED <<stdin, input_line, bytes_read, interpreted, outside_evie>>

\* main without arguments: the REPL starts on some standard input.
RunPrompt ==
    /\ pc = "start"
    /\ stdin' \in Inputs
    /\ pc' = "read"
    /\ UNCHANGED <<input_line, bytes_read, interpreted, stderr, exit_code, outside_evie>>

\* repl: read_line returns the next line and its length (with the newline),
\* or 0 and an empty line at the end of the input; an Err ends repl.
ReadLine ==
    /\ pc = "read"
    /\ \/ /\ stdin # <<>>
          /\ input_line' = Head(stdin)
          /\ bytes_read' = Len(Head(stdin)) + 1
          /\ stdin' = Tail(stdin)
          /\ pc' = "interpret"
          /\ UNCHANGED <<stderr, exit_code>>
       \/ /\ stdin = <<>>
          /\ input_line' = <<>>
          /\ bytes_read' = 0
          /\ stdin' = stdin
          /\ pc' = "interpret"
          /\ UNCHANGED <<stderr, exit_code>>
       \/ /\ main_returns("Io")
          /\ UNCHANGED <<stdin, input_line, bytes_read>>
    /\ UNCHANGED <<interpreted, outside_evie>>

\* repl: run_vm(with_semi_colon(line.trim())); Ok continues the loop, an Err
\* is printed and the loop ends if read_line had returned 0.
ReplInterpret ==
    /\ pc = "interpret"
    /\ Len(interpreted) < MaxInterpreted
    /\ interpreted' = Append(interpreted, with_semi_colon(trim(input_line)))
    /\ \E result \in Outcomes :
         IF result = "Ok"
         THEN /\ pc' = "read"
              /\ UNCHANGED <<stderr, exit_code>>
         ELSE IF bytes_read = 0
         THEN /\ pc' = "exited"
              /\ stderr' = Append(stderr, print_error(result))
              /\ exit_code' = 0
         ELSE /\ pc' = "read"
              /\ stderr' = Append(stderr, print_error(result))
              /\ exit_code' = exit_code
    /\ UNCHANGED <<stdin, input_line, bytes_read, outside_evie>>

EvieNext == RunScript \/ PrintHelp \/ RunPrompt \/ ReadLine \/ ReplInterpret

(***************************************************************************)
(* evie_instructions: the disassembler.  What it writes is kept line by    *)
(* line: the text of the instruction, the numbers printed after it and the *)
(* constant printed between quotes.  The padding that pretty adds to a     *)
(* line is left out; what pretty decides to print is not.                  *)
(***************************************************************************)

\* #[derive(Debug)] on Opcode: the name of each variant, by discriminant.
DebugNames ==
    <<"Constant", "Return", "Add", "Subtract", "Multiply", "Divide", "Negate", "Nil",
      "True", "False", "Not", "EqualEqual", "BangEqual", "Greater", "GreaterEqual",
      "Less", "LessEqual", "Print", "Pop", "DefineGlobal", "GetGlobal", "SetGlobal",
      "GetLocal", "SetLocal", "JumpIfFalse", "JumpIfTrue", "Jump", "Loop", "Call",
      "Closure", "GetUpvalue", "SetUpvalue", "CloseUpvalue", "Class", "SetProperty",
      "GetProperty", "Method", "Invoke">>

\* Display for Opcode
to_string(opcode) == "OpCode[" \o DebugNames[opcode + 1] \o "]"

\* A line of the writer: the offset and line columns that start it, and the rest.
Written(text, numbers, value) ==
    [at |-> 0, line |-> 0, text |-> text, numbers |-> numbers, value |-> value]

simple_instruction(opcode, from) ==
    [offset |-> from + 1, written |-> <<Written(to_string(opcode), <<>>, "")>>]

constant_instruction(opcode, chunk, from) ==
    LET constant == read_byte_at(chunk, from + 1) IN
    [offset |-> from + 2,
     written |-> <<Written(to_string(opcode), <<constant>>,
                           ValueToString(chunk.constants[constant + 1]))>>]

byte_instruction(opcode, chunk, from) ==
    LET slot == read_byte_at(chunk, from + 1) IN
    [offset |-> from + 2, written |-> <<Written(to_string(opcode), <<slot>>, "")>>]

jump_instruction(opcode, chunk, sign, from) ==
    LET jump == read_byte_at(chunk, from + 1) * 256 + read_byte_at(chunk, from + 2) IN
    [offset |-> from + 3,
     written |-> <<Written(to_string(opcode), <<from, from + 3 + jump * sign>>, "")>>]

\* The loop of closure_instruction over the upvalue_count pairs after the constant.
RECURSIVE closure_pairs(_, _, _, _)
closure_pairs(chunk, from, count, is_pretty) ==
    IF count = 0 THEN [offset |-> from, written |-> <<>>]
    ELSE LET is_local == read_byte_at(chunk, from)
             index == read_byte_at(chunk, from + 1)
             rest == closure_pairs(chunk, from + 2, count - 1, is_pretty)
         IN [offset |-> rest.offset,
             written |-> (IF is_pretty
                          THEN <<[Written(IF is_local = 1 THEN "local" ELSE "upvalue",
                                          <<index>>, "") EXCEPT !.at = from]>>
                          ELSE <<>>) \o rest.written]

closure_instruction(opcode, chunk, from, is_pretty) ==
    LET constant == read_byte_at(chunk, from + 1)
        v == chunk.constants[constant + 1]
        first == Written(to_string(opcode), <<constant>>, ValueToString(v))
        pairs == IF v.t = "fn"
                 THEN closure_pairs(chunk, from + 2, Functions[v.f].upvalue_count, is_pretty)
                 ELSE [offset |-> from + 2, written |-> <<>>]
    IN [offset |-> pairs.offset, written |-> <<first>> \o pairs.written]

invoke_instruction(opcode, chunk, from) ==
    LET constant == read_byte_at(chunk, from + 1)
        arg_count == read_byte_at(chunk, from + 2)
    IN [offset |-> from + 3,
        written |-> <<Written(to_string(opcode), <<arg_count, constant>>,
                              ValueToString(chunk.constants[constant + 1]))>>]

disassemble_instruction(byte, chunk, from, is_pretty) ==
    CASE byte \in {OP_CONSTANT, OP_DEFINE_GLOBAL, OP_GET_GLOBAL, OP_SET_GLOBAL, OP_CLASS,
                   OP_SET_PROPERTY, OP_GET_PROPERTY, OP_METHOD} ->
             constant_instruction(byte, chunk, from)
      [] byte \in {OP_SET_LOCAL, OP_GET_LOCAL, OP_CALL, OP_GET_UPVALUE, OP_SET_UPVALUE} ->
             byte_instruction(byte, chunk, from)
      [] byte \in {OP_JUMP, OP_JUMP_IF_FALSE, OP_JUMP_IF_TRUE} ->
             jump_instruction(byte, chunk, 1, from)
      [] byte = OP_LOOP -> jump_instruction(byte, chunk, -1, from)
      [] byte = OP_CLOSURE -> closure_instruction(byte, chunk, from, is_pretty)
      [] byte = OP_INVOKE -> invoke_instruction(byte, chunk, from)
      [] byte \in {OP_RETURN, OP_ADD, OP_SUBTRACT, OP_MULTIPLY, OP_DIVIDE, OP_NEGATE, OP_NIL,
                   OP_TRUE, OP_FALSE, OP_NOT, OP_EQUAL_EQUAL, OP_BANG_EQUAL, OP_GREATER,
                   OP_GREATER_EQUAL, OP_LESS, OP_LESS_EQUAL, OP_PRINT, OP_POP,
                   OP_CLOSE_UPVALUE} ->
             simple_instruction(byte, from)

\* Writes the offset and the line (0 stands for "|", the line of the byte before)
\* and lets disassemble_instruction finish that line of the writer.
disassemble_instruction_with_writer(chunk, from, is_pretty) ==
    LET same == from > 0 /\ chunk.lines[from] = chunk.lines[from + 1]
        result == disassemble_instruction(read_byte_at(chunk, from), chunk, from, is_pretty)
    IN [offset |-> result.offset,
        written |-> <<[result.written[1] EXCEPT
                           !.at = from,
                           !.line = IF same THEN 0 ELSE chunk.lines[from + 1]]>>
                        \o Tail(result.written)]

DisassemblerInit ==
    /\ listed = 0
    /\ pretty = FALSE
    /\ next_offset = 0
    /\ writer = <<>>

\* disassemble_chunk_with_writer, up to its loop: any function of the table, either way.
DisassembleChunk ==
    /\ IF listed = 0 THEN TRUE ELSE next_offset >= item_count(Functions[listed].code)
    /\ \E f \in 1..Len(Functions), is_pretty \in BOOLEAN :
          /\ listed' = f
          /\ pretty' = is_pretty
          /\ writer' = <<Written("== " \o Functions[f].name \o " ==", <<>>, "")>>
    /\ next_offset' = 0
    /\ UNCHANGED outside_disassembler

\* One turn of the loop of disassemble_chunk_with_writer.
DisassembleInstruction ==
    /\ listed # 0
    /\ next_offset < item_count(Functions[listed].code)
    /\ LET result == disassemble_instruction_with_writer(Functions[listed], next_offset, pretty)
       IN /\ next_offset' = result.offset
          /\ writer' = writer \o result.written
    /\ UNCHANGED <<listed, pretty, outside_disassembler>>

DisassemblerNext == DisassembleChunk \/ DisassembleInstruction

(***************************************************************************)
(* evie_memory: the two representations of Value.  A usize is written as   *)
(* its sixteen hexadecimal digits, most significant first; an f64 is the   *)
(* pattern of its bits (to_be_bytes / from_be_bytes keep every bit) and a  *)
(* pointer is its address.                                                 *)
(***************************************************************************)
and_digit(a, b) ==
    ((a \div 8) % 2) * ((b \div 8) % 2) * 8 + ((a \div 4) % 2) * ((b \div 4) % 2) * 4
        + ((a \div 2) % 2) * ((b \div 2) % 2) * 2 + (a % 2) * (b % 2)

\* &, | and ! on usize
BitAnd(x, y) == [i \in 1..16 |-> and_digit(x[i], y[i])]

BitOr(x, y) == [i \in 1..16 |-> x[i] + y[i] - and_digit(x[i], y[i])]

BitNot(x) == [i \in 1..16 |-> 15 - x[i]]

QNAN_BIT_FLAG == <<7, 15, 15, 12, 0, 0, 0, 0, 0, 0, 0, 0, 0, 0, 0, 0>>

SIGN_BIT_FLAG == <<8, 0, 0, 0, 0, 0, 0, 0, 0, 0, 0, 0, 0, 0, 0, 0>>

NIL_BIT_FLAG == <<0, 0, 0, 0, 0, 0, 0, 0, 0, 0, 0, 0, 0, 0, 0, 1>>

FALSE_BIT_FLAG == <<0, 0, 0, 0, 0, 0, 0, 0, 0, 0, 0, 0, 0, 0, 0, 2>>

TRUE_BIT_FLAG == <<0, 0, 0, 0, 0, 0, 0, 0, 0, 0, 0, 0, 0, 0, 0, 3>>

NIL == BitOr(QNAN_BIT_FLAG, NIL_BIT_FLAG)

FALSE_VALUE == BitOr(QNAN_BIT_FLAG, FALSE_BIT_FLAG)

TRUE_VALUE == BitOr(QNAN_BIT_FLAG, TRUE_BIT_FLAG)

\* The f64 given to number: 0, 1, 1.24, 124, -1, -1.24, infinity, the NaN of
\* f64::NAN, the NaN that 0.0 / 0.0 gives on x86-64, and a NaN whose two highest
\* mantissa bits are set (f64::from_bits(0x7ffc_0000_0000_0001)).
Floats ==
    { <<0, 0, 0, 0, 0, 0, 0, 0, 0, 0, 0, 0, 0, 0, 0, 0>>,
      <<3, 15, 15, 0, 0, 0, 0, 0, 0, 0, 0, 0, 0, 0, 0, 0>>,
      <<3, 15, 15, 3, 13, 7, 0, 10, 3, 13, 7, 0, 10, 3, 13, 7>>,
      <<4, 0, 5, 15, 0, 0, 0, 0, 0, 0, 0, 0, 0, 0, 0, 0>>,
      <<11, 15, 15, 0, 0, 0, 0, 0, 0, 0, 0, 0, 0, 0, 0, 0>>,
      <<11, 15, 15, 3, 13, 7, 0, 10, 3, 13, 7, 0, 10, 3, 13, 7>>,
      <<7, 15, 15, 0, 0, 0, 0, 0, 0, 0, 0, 0, 0, 0, 0, 0>>,
      <<7, 15, 15, 8, 0, 0, 0, 0, 0, 0, 0, 0, 0, 0, 0, 0>>,
      <<15, 15, 15, 8, 0, 0, 0, 0, 0, 0, 0, 0, 0, 0, 0, 0>>,
      <<7, 15, 15, 12, 0, 0, 0, 0, 0, 0, 0, 0, 0, 0, 0, 1>> }

\* The addresses Box::new gave to the Objects behind a GCObjectOf<Object>.
Pointers ==
    { <<0, 0, 0, 0, 5, 5, 13, 0, 12, 0, 13, 14, 0, 0, 1, 0>>,
      <<0, 0, 0, 0, 7, 15, 15, 15, 15, 7, 10, 0, 0, 0, 4, 0>> }

NullPointer == <<0, 0, 0, 0, 0, 0, 0, 0, 0, 0, 0, 0, 0, 0, 0, 0>>

GCObjectOf(reference) == [reference |-> reference]

\* What a call returns: a result, or the panic that ended it.
Returns(result) == [panicked |-> FALSE, result |-> result]

Panics(message) == [panicked |-> TRUE, result |-> message]

\* TryFrom<usize> for GCObjectOf<T>, followed by expect
try_into_expect(address, message) ==
    IF address # NullPointer THEN Returns(GCObjectOf(address)) ELSE Panics(message)

nan_boxed_nil == NIL

nan_boxed_bool(b) == IF b THEN TRUE_VALUE ELSE FALSE_VALUE

nan_boxed_number(n) == n

nan_boxed_object(o) == BitOr(BitOr(o.reference, SIGN_BIT_FLAG), QNAN_BIT_FLAG)

nan_boxed_is_number(v) == BitAnd(v, QNAN_BIT_FLAG) # QNAN_BIT_FLAG

nan_boxed_is_bool(v) == v = TRUE_VALUE \/ v = FALSE_VALUE

nan_boxed_is_nil(v) == v = NIL

nan_boxed_is_object(v) ==
    BitAnd(v, BitOr(QNAN_BIT_FLAG, SIGN_BIT_FLAG)) = BitOr(QNAN_BIT_FLAG, SIGN_BIT_FLAG)

nan_boxed_as_nil(v) == IF nan_boxed_is_nil(v) THEN Returns(NIL) ELSE Panics("Not nil")

nan_boxed_as_bool(v) ==
    IF nan_boxed_is_bool(v) THEN Returns(v = TRUE_VALUE) ELSE Panics("Not a boolean")

nan_boxed_as_number(v) == IF nan_boxed_is_number(v) THEN Returns(v) ELSE Panics("Not a number")

nan_boxed_as_object(v) ==
    LET object == BitAnd(v, BitNot(BitOr(QNAN_BIT_FLAG, SIGN_BIT_FLAG)))
    IN try_into_expect(object, "Not an object")

non_nan_boxed_nil == [variant |-> "Nil"]

non_nan_boxed_bool(b) == [variant |-> "Boolean", field |-> b]

non_nan_boxed_number(n) == [variant |-> "Number", field |-> n]

non_nan_boxed_object(o) == [variant |-> "Object", field |-> o]

non_nan_boxed_is_nil(v) == v.variant = "Nil"

non_nan_boxed_as_nil(v) ==
    IF non_nan_boxed_is_nil(v) THEN Returns(non_nan_boxed_nil) ELSE Panics("Not nil")

non_nan_boxed_as_bool(v) ==
    IF v.variant = "Boolean" THEN Returns(v.field) ELSE Panics("Not a boolean")

non_nan_boxed_as_number(v) ==
    IF v.variant = "Number" THEN Returns(v.field) ELSE Panics("Not a number")

non_nan_boxed_as_object(v) ==
    IF v.variant = "Object" THEN Returns(v.field) ELSE Panics("Not an Object")

Representations == {"nan_boxed", "non_nan_boxed"}

\* A value, the constructor that made it and what the constructor was given.
Constructed(module, variant, payload, value) ==
    [module |-> module, variant |-> variant, payload |-> payload, value |-> value]

NotExtracted == [as |-> "none", panicked |-> FALSE, result |-> 0]

ValueInit ==
    /\ constructed = Constructed("none", "none", 0, 0)
    /\ extracted = NotExtracted

\* Value::nil()
ValueNil ==
    /\ \E module \in Representations :
          constructed' =
              IF module = "nan_boxed"
              THEN Constructed(module, "nil", nan_boxed_nil, nan_boxed_nil)
              ELSE Constructed(module, "nil", non_nan_boxed_nil, non_nan_boxed_nil)
    /\ extracted' = NotExtracted
    /\ UNCHANGED outside_value

\* Value::bool(b)
ValueBool ==
    /\ \E module \in Representations, b \in BOOLEAN :
          constructed' =
              Constructed(module, "bool", b,
                          IF module = "nan_boxed" THEN nan_boxed_bool(b)
                          ELSE non_nan_boxed_bool(b))
    /\ extracted' = NotExtracted
    /\ UNCHANGED outside_value

\* Value::number(n)
ValueNumber ==
    /\ \E module \in Representations, n \in Floats :
          constructed' =
              Constructed(module, "number", n,
                          IF module = "nan_boxed" THEN nan_boxed_number(n)
                          ELSE non_nan_boxed_number(n))
    /\ extracted' = NotExtracted
    /\ UNCHANGED outside_value

\* Value::object(o)
ValueObject ==
    /\ \E module \in Representations, reference \in Pointers :
          constructed' =
              Constructed(module, "object", GCObjectOf(reference),
                          IF module = "nan_boxed" THEN nan_boxed_object(GCObjectOf(reference))
                          ELSE non_nan_boxed_object(GCObjectOf(reference)))
    /\ extracted' = NotExtracted
    /\ UNCHANGED outside_value

\* What as_nil / as_bool / as_number / as_object of the value's module does.
Extract(as, module, v) ==
    IF module = "nan_boxed"
    THEN CASE as = "nil" -> nan_boxed_as_nil(v)
           [] as = "bool" -> nan_boxed_as_bool(v)
           [] as = "number" -> nan_boxed_as_number(v)
           [] as = "object" -> nan_boxed_as_object(v)
    ELSE CASE as = "nil" -> non_nan_boxed_as_nil(v)
           [] as = "bool" -> non_nan_boxed_as_bool(v)
           [] as = "number" -> non_nan_boxed_as_number(v)
           [] as = "object" -> non_nan_boxed_as_object(v)

AsNil ==
    /\ constructed.module # "none"
    /\ LET call == Extract("nil", constructed.module, constructed.value)
       IN extracted' = [as |-> "nil", panicked |-> call.panicked, result |-> call.result]
    /\ UNCHANGED <<constructed, outside_value>>

AsBool ==
    /\ constructed.module # "none"
    /\ LET call == Extract("bool", constructed.module, constructed.value)
       IN extracted' = [as |-> "bool", panicked |-> call.panicked, result |-> call.result]
    /\ UNCHANGED <<constructed, outside_value>>

AsNumber ==
    /\ constructed.module # "none"
    /\ LET call == Extract("number", constructed.module, constructed.value)
       IN extracted' = [as |-> "number", panicked |-> call.panicked, result |-> call.result]
    /\ UNCHANGED <<constructed, outside_value>>

AsObject ==
    /\ constructed.module # "none"
    /\ LET call == Extract("object", constructed.module, constructed.value)
       IN extracted' = [as |-> "object", panicked |-> call.panicked, result |-> call.result]
    /\ UNCHANGED <<constructed, outside_value>>

ValueNext ==
    \/ ValueNil
    \/ ValueBool
    \/ ValueNumber
    \/ ValueObject
    \/ AsNil
    \/ AsBool
    \/ AsNumber
    \/ AsObject


----------------------------------------------------------------------------
(***************************************************************************)
(* evie_vm::runtime_memory::Objects<V>, the store of the global variables: *)
(* a Cache (a vector of (key, value) items, evie_memory::cache) in front   *)
(* of a hash map.  Keys are handles of interned names.                     *)
(***************************************************************************)
\* runtime_memory.rs:12 has 1024; the model drains at a threshold it can reach.
ITEM_COUNT == 2

\* Number of distinct names used as keys.
MaxKeys == 4

GlobalKeys == 1..MaxKeys

GlobalValues == {"first", "second"}

None == [is_some |-> FALSE, v |-> "none"]

Some(v) == [is_some |-> TRUE, v |-> v]

Item(key, v) == [k |-> key, v |-> v]

\* Position of the first item of the vector that has this key, 0 if there is none.
cache_find(cache, key) ==
    IF \E i \in 1..Len(cache) : cache[i].k = key
    THEN CHOOSE i \in 1..Len(cache) :
             cache[i].k = key /\ \A j \in 1..(i - 1) : cache[j].k # key
    ELSE 0

cache_insert_always_pushes(cache, key, v) == Append(cache, Item(key, v))

cache_insert(cache, key, v) ==
    IF cache_find(cache, key) # 0
    THEN [cache EXCEPT ![cache_find(cache, key)] = Item(key, v)]
    ELSE Append(cache, Item(key, v))

cache_get(cache, key) ==
    IF cache_find(cache, key) # 0 THEN Some(cache[cache_find(cache, key)].v) ELSE None

cache_contains_key(cache, key) == \E i \in 1..Len(cache) : cache[i].k = key

cache_size(cache) == Len(cache)

\* self.cached_values.drain(0..index): the items taken, and the vector left.
drain_first(cache, index) ==
    [items |-> SubSeq(cache, 1, index), rest |-> SubSeq(cache, index + 1, Len(cache))]

\* items.into_iter().for_each(|(k, v)| { self.objects.insert(k, v); })
RECURSIVE insert_each(_, _)
insert_each(map, items) ==
    IF items = <<>> THEN map
    ELSE insert_each((items[1].k :> Some(items[1].v)) @@ map, Tail(items))

Store(map, cache) == [objects |-> map, cached_values |-> cache]

objects_insert(map, cache, key, v) ==
    LET pushed == cache_insert(cache, key, v) IN
    IF cache_size(pushed) >= ITEM_COUNT
    THEN Store(insert_each(map, drain_first(pushed, ITEM_COUNT).items),
               drain_first(pushed, ITEM_COUNT).rest)
    ELSE Store(map, pushed)

\* The Option returned, and the store as the call leaves it.
objects_get(map, cache, key) ==
    IF cache_get(cache, key).is_some
    THEN [result |-> cache_get(cache, key), store |-> Store(map, cache)]
    ELSE IF map[key].is_some
         THEN [result |-> map[key], store |-> Store(map, cache_insert(cache, key, map[key].v))]
         ELSE [result |-> None, store |-> Store(map, cache)]

objects_contains_key(map, cache, key) == cache_contains_key(cache, key) \/ map[key].is_some

\* Objects::new()
ObjectsInit ==
    /\ objects = [k \in GlobalKeys |-> None]
    /\ cached_values = <<>>
    /\ inserted = [k \in GlobalKeys |-> None]
    /\ called = "new"

ObjectsInsert ==
    \E key \in GlobalKeys, v \in GlobalValues :
        /\ objects' = objects_insert(objects, cached_values, key, v).objects
        /\ cached_values' = objects_insert(objects, cached_values, key, v).cached_values
        /\ inserted' = [inserted EXCEPT ![key] = Some(v)]
        /\ called' = "insert"
        /\ UNCHANGED outside_objects

ObjectsGet ==
    \E key \in GlobalKeys :
        /\ objects' = objects_get(objects, cached_values, key).store.objects
        /\ cached_values' = objects_get(objects, cached_values, key).store.cached_values
        /\ called' = "get"
        /\ UNCHANGED <<inserted, outside_objects>>

\* contains_key takes &self: it changes nothing.
ObjectsContainsKey ==
    /\ called' = "contains_key"
    /\ UNCHANGED <<objects, cached_values, inserted, outside_objects>>

ObjectsNext ==
    \/ ObjectsInsert
    \/ ObjectsGet
    \/ ObjectsContainsKey
LibraryInit ==
    /\ AllocatorInit
    /\ ChunkInit
    /\ EvieInit
    /\ DisassemblerInit
    /\ ValueInit
    /\ ObjectsInit

----------------------------------------------------------------------------
(***************************************************************************)
(* Outcomes of a handler.  Machine sets the five variables every handler   *)
(* touches; Others are named by the handlers that change them.             *)
(***************************************************************************)
Machine(st, err, frames, stk, top) ==
    /\ status' = st
    /\ error' = err
    /\ call_frames' = frames
    /\ stack' = stk
    /\ stack_top' = top
    /\ current_function' = current_function
    /\ UNCHANGED <<history, library>>

\* The handler succeeded and run now executes function (after a call or a return).
Switch(function, frames, stk, top) ==
    /\ status' = status
    /\ error' = error
    /\ call_frames' = frames
    /\ stack' = stk
    /\ stack_top' = top
    /\ current_function' = function
    /\ UNCHANGED <<history, library>>

\* A failed assert! (or an arithmetic underflow, or unbounded recursion).
Panic(frames) == Machine("panic", error, frames, stack, stack_top)

\* bail!(self.runtime_error(message)): run returns Err, the VM is left as it is.
Bail(message, frames) ==
    IF runtime_error_returns(frames)
    THEN Machine("error", runtime_error(message, frames), frames, stack, stack_top)
    ELSE Panic(frames)

\* self.push(value)? as the last step of a handler.
Push(value, frames) ==
    IF push_assert(stack_top)
    THEN Machine(status, error, frames, [stack EXCEPT ![stack_top] = value], stack_top + 1)
    ELSE Panic(frames)

Running(opcode) == status = "running" /\ instruction = opcode

\* The main function of the interpret call in progress or last made (0: none yet).
main_function ==
    LET made == {c \in DOMAIN closures : closures[c].function \in Scripts} IN
    IF made = {} THEN 0
    ELSE closures[CHOOSE c \in made : \A d \in made : d <= c].function

----------------------------------------------------------------------------
(***************************************************************************)
(* Runner::new: VirtualMachine::new, then the native functions clock (no   *)
(* argument) and to_string (one argument) are registered as globals.       *)
(***************************************************************************)
define_native_fn(name, arity, values) == (name :> NativeFunction(name, arity)) @@ values

Init ==
    /\ stack = [i \in 0..(STACK_SIZE - 1) |-> Nil]
    /\ stack_top = 0
    /\ call_frames = <<>>
    /\ current_function = 0
    /\ runtime_values = define_native_fn("to_string", 1, define_native_fn("clock", 0, <<>>))
    /\ up_values = <<>>
    /\ upvalue_heap = <<>>
    /\ closures = <<>>
    /\ strings = 0
    /\ output = <<>>
    /\ status = "idle"
    /\ error = NoError
    /\ runs = 0
    /\ history = <<>>
    /\ LibraryInit

\* reset_vm that sets stack_top to 0 but leaves call_frames as they are.
reset_vm_keeping_frames == [call_frames |-> call_frames, stack_top |-> 0]

\* reset_vm: self.call_frames.clear(); self.stack_top = 0.
reset_vm == [call_frames |-> <<>>, stack_top |-> 0]

(***************************************************************************)
(* interpret(source): reset_vm, compile (script is the main function the   *)
(* compiler returned), wrap it in a closure with no upvalues, push it and  *)
(* the first call frame, then run.                                         *)
(***************************************************************************)
Interpret(script) ==
    /\ status \in {"idle", "ok", "error"}
    /\ runs < MaxRuns
    /\ runs' = runs + 1
    /\ history' = Append(history, [script |-> script, globals |-> runtime_values,
                                   written |-> Len(output),
                                   before |-> [status |-> status, error |-> error]])
    /\ closures' = Append(closures, [function |-> script, upvalues |-> <<>>])
    /\ status' = "running"
    /\ error' = NoError
    /\ LET vm == reset_vm IN
       /\ call_frames' = Append(vm.call_frames, CallFrame(0))
       /\ stack' = [stack EXCEPT ![vm.stack_top] = ClosureObject(Len(closures) + 1)]
       /\ stack_top' = vm.stack_top + 1
    /\ current_function' = script
    /\ UNCHANGED <<runtime_values, up_values, upvalue_heap, strings, output, library>>

Opcode_Constant ==
    /\ Running(OP_CONSTANT)
    /\ IF read_item_assert(current_chunk, ip + 1)
       THEN Push(read_constant_at(current_chunk, ip + 1), Advance(2))
       ELSE Panic(Advance(1))
    /\ UNCHANGED <<runtime_values, up_values, upvalue_heap, closures, strings, output, runs>>

Opcode_Nil ==
    /\ Running(OP_NIL)
    /\ Push(Nil, Advance(1))
    /\ UNCHANGED <<runtime_values, up_values, upvalue_heap, closures, strings, output, runs>>

Opcode_True ==
    /\ Running(OP_TRUE)
    /\ Push(Boolean(TRUE), Advance(1))
    /\ UNCHANGED <<runtime_values, up_values, upvalue_heap, closures, strings, output, runs>>

Opcode_False ==
    /\ Running(OP_FALSE)
    /\ Push(Boolean(FALSE), Advance(1))
    /\ UNCHANGED <<runtime_values, up_values, upvalue_heap, closures, strings, output, runs>>

Opcode_JumpIfFalse ==
    /\ Running(OP_JUMP_IF_FALSE)
    /\ LET offset == read_short(current_chunk, ip + 1) IN
       IF ~peek_ok(0) THEN Panic(Advance(3))
       ELSE IF is_falsey(peek_at(0))
            THEN Machine(status, error, Advance(3 + offset), stack, stack_top)
            ELSE Machine(status, error, Advance(3), stack, stack_top)
    /\ UNCHANGED <<runtime_values, up_values, upvalue_heap, closures, strings, output, runs>>

Opcode_JumpIfTrue ==
    /\ Running(OP_JUMP_IF_TRUE)
    /\ LET offset == read_short(current_chunk, ip + 1) IN
       IF ~peek_ok(0) THEN Panic(Advance(3))
       ELSE IF ~is_falsey(peek_at(0))
            THEN Machine(status, error, Advance(3 + offset), stack, stack_top)
            ELSE Machine(status, error, Advance(3), stack, stack_top)
    /\ UNCHANGED <<runtime_values, up_values, upvalue_heap, closures, strings, output, runs>>

Opcode_Pop ==
    /\ Running(OP_POP)
    /\ IF pop_assert(stack_top)
       THEN Machine(status, error, Advance(1), stack, stack_top - 1)
       ELSE Panic(Advance(1))
    /\ UNCHANGED <<runtime_values, up_values, upvalue_heap, closures, strings, output, runs>>

Opcode_Print ==
    /\ Running(OP_PRINT)
    /\ IF pop_assert(stack_top)
       THEN /\ Machine(status, error, Advance(1), stack, stack_top - 1)
            /\ output' = Append(output, ValueToString(stack[stack_top - 1]))
       ELSE Panic(Advance(1)) /\ output' = output
    /\ UNCHANGED <<runtime_values, up_values, upvalue_heap, closures, strings, runs>>

Opcode_Return ==
    /\ Running(OP_RETURN)
    /\ LET fn_starting_pointer == call_frame.fn_start_stack_index
           frames == Advance(1)
           closed == close_upvalues(up_values, upvalue_heap, fn_starting_pointer)
           callers == SubSeq(frames, 1, Len(frames) - 1)
       IN IF ~pop_assert(stack_top)
          THEN Panic(frames) /\ UNCHANGED <<up_values, upvalue_heap>>
          ELSE /\ up_values' = closed.up_values
               /\ upvalue_heap' = closed.upvalue_heap
               /\ IF Len(call_frames) = 1
                  THEN Machine("ok", error, frames, stack, stack_top - 1)
                  ELSE IF ~closure_on_stack(callers[Len(callers)].fn_start_stack_index)
                  THEN Panic(callers)
                  ELSE Switch(closure_from_stack(
                                  callers[Len(callers)].fn_start_stack_index).function,
                              callers,
                              [stack EXCEPT ![fn_starting_pointer] = stack[stack_top - 1]],
                              fn_starting_pointer + 1)
    /\ UNCHANGED <<runtime_values, closures, strings, output, runs>>

(***************************************************************************)
(* call(arg_count) / call_function.                                        *)
(***************************************************************************)
\* Variant of call_function whose frame starts above the arguments.
call_function_above_arguments(function, arg_count, fn_start_stack_index, frames) ==
    IF check_arguments(Functions[function], arg_count)
    THEN Switch(function, Append(frames, CallFrame(fn_start_stack_index + arg_count)),
                stack, stack_top)
    ELSE Bail(ArityMessage(Functions[function], arg_count), frames)

call_function(function, arg_count, fn_start_stack_index, frames) ==
    IF check_arguments(Functions[function], arg_count)
    THEN Switch(function, Append(frames, CallFrame(fn_start_stack_index)), stack, stack_top)
    ELSE Bail(ArityMessage(Functions[function], arg_count), frames)

Opcode_Call ==
    /\ Running(OP_CALL)
    /\ LET arg_count == Operand(1)
           frames == Advance(2)
           value == peek_at(arg_count)
           start_index == stack_top - 1 - arg_count
       IN IF ~peek_ok(arg_count) THEN Panic(frames)
          ELSE CASE value.t = "closure" ->
                      call_function(closures[value.c].function, arg_count, start_index,
                                    frames)
                 [] value.t = "native" ->
                      \* call_function checks no arity, pushes no frame and calls
                      \* nothing; run then reloads the function of the current frame
                      IF closure_on_stack(call_frame.fn_start_stack_index)
                      THEN Switch(current_closure.function, frames, stack, stack_top)
                      ELSE Panic(frames)
                 [] value.t = "fn" ->
                      \* a frame over a bare function: current_function then fails
                      \* inside runtime_error, which never returns
                      IF check_arguments(Functions[value.f], arg_count)
                      THEN Panic(Append(frames, CallFrame(start_index)))
                      ELSE Bail(ArityMessage(Functions[value.f], arg_count), frames)
                 [] OTHER ->
                      Bail("can only call a function/closure, constructor or a class method, got '"
                           \o ValueToString(value) \o "', at stack index "
                           \o ToString(start_index), frames)
    /\ UNCHANGED <<runtime_values, up_values, upvalue_heap, closures, strings, output, runs>>

Opcode_Closure ==
    /\ Running(OP_CLOSURE)
    /\ LET constant == read_constant_at(current_chunk, ip + 1) IN
       IF constant.t # "fn"
       THEN /\ Bail("Not a function", Advance(2))
            /\ UNCHANGED <<up_values, upvalue_heap, closures>>
       ELSE LET function == Functions[constant.f]
                built == closure_upvalues(0, ip + 2,
                             [upvalues |-> <<>>, up_values |-> up_values,
                              upvalue_heap |-> upvalue_heap],
                             function.upvalue_count)
            IN /\ up_values' = built.up_values
               /\ upvalue_heap' = built.upvalue_heap
               /\ closures' = Append(closures,
                                  [function |-> constant.f, upvalues |-> built.upvalues])
               /\ Push(ClosureObject(Len(closures) + 1),
                       Advance(2 + 2 * function.upvalue_count))
    /\ UNCHANGED <<runtime_values, strings, output, runs>>

Opcode_GetUpvalue ==
    /\ Running(OP_GET_UPVALUE)
    /\ LET slot == Operand(1)
           upvalue == current_closure.upvalues[slot + 1]
       IN IF ~closure_on_stack(call_frame.fn_start_stack_index)
             \/ slot >= Len(current_closure.upvalues)
          THEN Panic(Advance(2))
          ELSE IF upvalue.location.kind = "Stack"
          THEN IF stack_index_assert(upvalue.location.index)
               THEN Push(stack[upvalue.location.index], Advance(2))
               ELSE Panic(Advance(2))
          ELSE Push(upvalue.location.value, Advance(2))
    /\ UNCHANGED <<runtime_values, up_values, upvalue_heap, closures, strings, output, runs>>

\* value is peek_at(slot); a Heap location is written in a local copy of the
\* Upvalue only.
Opcode_SetUpvalue ==
    /\ Running(OP_SET_UPVALUE)
    /\ LET slot == Operand(1)
           upvalue == current_closure.upvalues[slot + 1]
       IN IF \/ ~peek_ok(slot)
             \/ ~closure_on_stack(call_frame.fn_start_stack_index)
             \/ slot >= Len(current_closure.upvalues)
          THEN Panic(Advance(2))
          ELSE IF upvalue.location.kind = "Stack"
          THEN IF stack_index_assert(upvalue.location.index)
               THEN Machine(status, error, Advance(2),
                            [stack EXCEPT ![upvalue.location.index] = peek_at(slot)],
                            stack_top)
               ELSE Panic(Advance(2))
          ELSE Machine(status, error, Advance(2), stack, stack_top)
    /\ UNCHANGED <<runtime_values, up_values, upvalue_heap, closures, strings, output, runs>>

Opcode_CloseUpvalue ==
    /\ Running(OP_CLOSE_UPVALUE)
    /\ IF ~pop_assert(stack_top)
       THEN Panic(Advance(1)) /\ UNCHANGED <<up_values, upvalue_heap>>
       ELSE LET closed == close_upvalues(up_values, upvalue_heap, stack_top - 1) IN
            /\ up_values' = closed.up_values
            /\ upvalue_heap' = closed.upvalue_heap
            /\ Machine(status, error, Advance(1), stack, stack_top - 1)
    /\ UNCHANGED <<runtime_values, closures, strings, output, runs>>

Opcode_GetLocal ==
    /\ Running(OP_GET_LOCAL)
    /\ LET index == Operand(1)
           fn_start_pointer == call_frame.fn_start_stack_index
       IN IF stack_index_assert(fn_start_pointer + index)
          THEN Push(stack[fn_start_pointer + index], Advance(2))
          ELSE Panic(Advance(2))
    /\ UNCHANGED <<runtime_values, up_values, upvalue_heap, closures, strings, output, runs>>

\* read_string: the constant must be a string, else Err(runtime_error("message")).
Opcode_DefineGlobal ==
    /\ Running(OP_DEFINE_GLOBAL)
    /\ LET name == read_constant_at(current_chunk, ip + 1) IN
       IF ~pop_assert(stack_top)
       THEN Panic(Advance(1)) /\ runtime_values' = runtime_values
       ELSE IF name.t # "str"
       THEN /\ IF runtime_error_returns(Advance(2))
               THEN Machine("error", runtime_error("message", Advance(2)), Advance(2),
                            stack, stack_top - 1)
               ELSE Machine("panic", error, Advance(2), stack, stack_top - 1)
            /\ runtime_values' = runtime_values
       ELSE /\ runtime_values' = (name.s :> stack[stack_top - 1]) @@ runtime_values
            /\ Machine(status, error, Advance(2), stack, stack_top - 1)
    /\ UNCHANGED <<up_values, upvalue_heap, closures, strings, output, runs>>

Opcode_GetGlobal ==
    /\ Running(OP_GET_GLOBAL)
    /\ LET name == read_constant_at(current_chunk, ip + 1) IN
       IF name.t # "str" THEN Bail("message", Advance(2))
       ELSE IF name.s \in DOMAIN runtime_values
       THEN Push(runtime_values[name.s], Advance(2))
       ELSE Bail("Undefined variable '" \o name.s \o "'", Advance(2))
    /\ UNCHANGED <<runtime_values, up_values, upvalue_heap, closures, strings, output, runs>>

Opcode_SetGlobal ==
    /\ Running(OP_SET_GLOBAL)
    /\ LET name == read_constant_at(current_chunk, ip + 1) IN
       IF name.t # "str" THEN Bail("message", Advance(2)) /\ runtime_values' = runtime_values
       ELSE IF ~peek_ok(0) THEN Panic(Advance(2)) /\ runtime_values' = runtime_values
       ELSE IF name.s \in DOMAIN runtime_values
       THEN /\ runtime_values' = [runtime_values EXCEPT ![name.s] = peek_at(0)]
            /\ Machine(status, error, Advance(2), stack, stack_top)
       ELSE /\ Bail("Undefined variable '" \o name.s \o "'", Advance(2))
            /\ runtime_values' = runtime_values
    /\ UNCHANGED <<up_values, upvalue_heap, closures, strings, output, runs>>

\* equals(): left = pop(), right = pop(), then push the boolean.
Opcode_EqualEqual ==
    /\ Running(OP_EQUAL_EQUAL)
    /\ IF pop_assert(stack_top) /\ pop_assert(stack_top - 1)
       THEN Machine(status, error, Advance(1),
                    [stack EXCEPT ![stack_top - 2] =
                        Boolean(value_equals(stack[stack_top - 1], stack[stack_top - 2]))],
                    stack_top - 1)
       ELSE Panic(Advance(1))
    /\ UNCHANGED <<runtime_values, up_values, upvalue_heap, closures, strings, output, runs>>

Opcode_BangEqual ==
    /\ Running(OP_BANG_EQUAL)
    /\ IF pop_assert(stack_top) /\ pop_assert(stack_top - 1)
       THEN Machine(status, error, Advance(1),
                    [stack EXCEPT ![stack_top - 2] =
                        Boolean(~value_equals(stack[stack_top - 1], stack[stack_top - 2]))],
                    stack_top - 1)
       ELSE Panic(Advance(1))
    /\ UNCHANGED <<runtime_values, up_values, upvalue_heap, closures, strings, output, runs>>

\* add(): two strings are concatenated into a string made by allocator.alloc,
\* two numbers go through binary_op, anything else is a runtime error.
Opcode_Add ==
    /\ Running(OP_ADD)
    /\ IF ~peek_ok(1)
       THEN Panic(Advance(1)) /\ strings' = strings
       ELSE LET l == peek_at(1)
                r == peek_at(0)
            IN CASE l.t = "str" /\ r.t = "str" ->
                      /\ strings' = strings + 1
                      /\ Machine(status, error, Advance(1),
                                 [stack EXCEPT ![stack_top - 2] =
                                     String(InternedCount + strings + 1, l.s \o r.s)],
                                 stack_top - 1)
                 [] l.t = "num" /\ r.t = "num" ->
                      /\ strings' = strings
                      /\ Machine(status, error, Advance(1),
                                 [stack EXCEPT ![stack_top - 2] = Number(l.n + r.n)],
                                 stack_top - 1)
                 [] OTHER ->
                      /\ strings' = strings
                      /\ Bail("Add can be perfomed only on numbers or strings, got "
                              \o ValueToString(l) \o " and " \o ValueToString(r), Advance(1))
    /\ UNCHANGED <<runtime_values, up_values, upvalue_heap, closures, output, runs>>

\* binary_op_with_num: the two operands are popped and op's result pushed.
binary_op_with_num(left, right, op) ==
    Machine(status, error, Advance(1),
            [stack EXCEPT ![stack_top - 2] = op[left, right]], stack_top - 1)

binary_op_pops_first(op) ==
    IF ~peek_ok(1)
    THEN Panic(Advance(1))
    ELSE IF peek_at(1).t = "num" /\ peek_at(0).t = "num"
         THEN binary_op_with_num(peek_at(1).n, peek_at(0).n, op)
         ELSE IF runtime_error_returns(Advance(1))
              THEN Machine("error",
                           runtime_error("Can perform binary operations only on numbers.",
                                         Advance(1)),
                           Advance(1), stack, stack_top - 2)
              ELSE Panic(Advance(1))

\* binary_op: both operands are peeked at; op is the closure the handler passes.
binary_op(op) ==
    IF ~peek_ok(1)
    THEN Panic(Advance(1))
    ELSE IF peek_at(1).t = "num" /\ peek_at(0).t = "num"
         THEN binary_op_with_num(peek_at(1).n, peek_at(0).n, op)
         ELSE Bail("Can perform binary operations only on numbers.", Advance(1))

\* a / b on the numbers of the model: a quotient that is no integer is kept
\* as the pair of its operands.
Quotient(a, b) ==
    IF b > 0 /\ a % b = 0 THEN a \div b
    ELSE IF b < 0 /\ a % (0 - b) = 0 THEN 0 - (a \div (0 - b))
    ELSE <<a, b>>

Opcode_Negate ==
    /\ Running(OP_NEGATE)
    /\ IF ~peek_ok(0)
       THEN Panic(Advance(1))
       ELSE IF peek_at(0).t = "num"
            THEN Machine(status, error, Advance(1),
                         [stack EXCEPT ![stack_top - 1] = Number(0 - peek_at(0).n)], stack_top)
            ELSE Bail("Can only negate numbers.", Advance(1))
    /\ UNCHANGED <<runtime_values, up_values, upvalue_heap, closures, strings, output, runs>>

Opcode_Subtract ==
    /\ Running(OP_SUBTRACT)
    /\ binary_op([a \in Int, b \in Int |-> Number(a - b)])
    /\ UNCHANGED <<runtime_values, up_values, upvalue_heap, closures, strings, output, runs>>

Opcode_Multiply ==
    /\ Running(OP_MULTIPLY)
    /\ binary_op([a \in Int, b \in Int |-> Number(a * b)])
    /\ UNCHANGED <<runtime_values, up_values, upvalue_heap, closures, strings, output, runs>>

Opcode_Divide ==
    /\ Running(OP_DIVIDE)
    /\ binary_op([a \in Int, b \in Int |-> Number(Quotient(a, b))])
    /\ UNCHANGED <<runtime_values, up_values, upvalue_heap, closures, strings, output, runs>>

Opcode_Greater ==
    /\ Running(OP_GREATER)
    /\ binary_op([a \in Int, b \in Int |-> Boolean(a > b)])
    /\ UNCHANGED <<runtime_values, up_values, upvalue_heap, closures, strings, output, runs>>

Opcode_GreaterEqual ==
    /\ Running(OP_GREATER_EQUAL)
    /\ binary_op([a \in Int, b \in Int |-> Boolean(a >= b)])
    /\ UNCHANGED <<runtime_values, up_values, upvalue_heap, closures, strings, output, runs>>

Opcode_Less ==
    /\ Running(OP_LESS)
    /\ binary_op([a \in Int, b \in Int |-> Boolean(a < b)])
    /\ UNCHANGED <<runtime_values, up_values, upvalue_heap, closures, strings, output, runs>>

Opcode_LessEqual ==
    /\ Running(OP_LESS_EQUAL)
    /\ binary_op([a \in Int, b \in Int |-> Boolean(a <= b)])
    /\ UNCHANGED <<runtime_values, up_values, upvalue_heap, closures, strings, output, runs>>

\* The handler of Opcode::GetProperty is empty: it reads no operand and leaves
\* the stack as it is, so run decodes the operand byte as the next opcode.
Opcode_GetProperty ==
    /\ Running(OP_GET_PROPERTY)
    /\ Machine(status, error, Advance(1), stack, stack_top)
    /\ UNCHANGED <<runtime_values, up_values, upvalue_heap, closures, strings, output, runs>>

\* The handler of Opcode::Class is empty as well.
Opcode_Class ==
    /\ Running(OP_CLASS)
    /\ Machine(status, error, Advance(1), stack, stack_top)
    /\ UNCHANGED <<runtime_values, up_values, upvalue_heap, closures, strings, output, runs>>

Next ==
    \/ \E script \in Scripts : Interpret(script)
    \/ Opcode_Constant
    \/ Opcode_Nil
    \/ Opcode_True
    \/ Opcode_False
    \/ Opcode_JumpIfFalse
    \/ Opcode_JumpIfTrue
    \/ Opcode_Pop
    \/ Opcode_Print
    \/ Opcode_Return
    \/ Opcode_Call
    \/ Opcode_Closure
    \/ Opcode_GetUpvalue
    \/ Opcode_SetUpvalue
    \/ Opcode_CloseUpvalue
    \/ Opcode_GetLocal
    \/ Opcode_DefineGlobal
    \/ Opcode_GetGlobal
    \/ Opcode_SetGlobal
    \/ Opcode_EqualEqual
    \/ Opcode_BangEqual
    \/ Opcode_Add
    \/ Opcode_Negate
    \/ Opcode_Subtract
    \/ Opcode_Multiply
    \/ Opcode_Divide
    \/ Opcode_Greater
    \/ Opcode_GreaterEqual
    \/ Opcode_Less
    \/ Opcode_LessEqual
    \/ Opcode_GetProperty
    \/ Opcode_Class

Spec == Init /\ [][Next]_vars


----------------------------------------------------------------------------
(***************************************************************************)
(* Vocabulary of the properties.                                           *)
(***************************************************************************)
\* The upvalue entries of all closures, as <<closure handle, position>>.
UpvalueEntries ==
    UNION {{<<c, k>> : k \in 1..Len(closures[c].upvalues)} : c \in DOMAIN closures}

\* The value GET_UPVALUE reads through entry e.
ReadThrough(e) ==
    LET location == closures[e[1]].upvalues[e[2]].location IN
    IF location.kind = "Stack" THEN stack[location.index] ELSE location.value

\* Two entries capture the same variable: they are copies of one Upvalue object.
SameVariable(e1, e2) ==
    closures[e1[1]].upvalues[e1[2]].origin = closures[e2[1]].upvalues[e2[2]].origin

\* The variable entry e captures has been closed.
ClosedVariable(e) ==
    upvalue_heap[closures[e[1]].upvalues[e[2]].origin].location.kind = "Heap"

\* This step is a SET_UPVALUE the running closure makes through its entry e.
AssignsThrough(e) ==
    /\ Running(OP_SET_UPVALUE)
    /\ stack[call_frame.fn_start_stack_index].t = "closure"
    /\ stack[call_frame.fn_start_stack_index].c = e[1]
    /\ Operand(1) + 1 = e[2]
    /\ status' = "running"

\* The callee of the CALL about to execute is a closure; its function.
CallsClosure ==
    /\ Running(OP_CALL)
    /\ peek_ok(Operand(1))
    /\ peek_at(Operand(1)).t = "closure"

Callee == Functions[closures[peek_at(Operand(1)).c].function]

\* The instruction about to execute is one whose handler pushes a value.
PushesValue ==
    /\ status = "running"
    /\ \/ instruction \in {OP_CONSTANT, OP_NIL, OP_GET_LOCAL, OP_GET_UPVALUE, OP_CLOSURE}
       \/ /\ instruction = OP_GET_GLOBAL
          /\ read_constant_at(current_chunk, ip + 1).t = "str"
          /\ read_constant_at(current_chunk, ip + 1).s \in DOMAIN runtime_values

\* The string values the VM holds on its stack and in its globals.
LiveStrings ==
    {stack[i] : i \in {j \in 0..(stack_top - 1) : stack[j].t = "str"}}
        \cup {runtime_values[n] : n \in {m \in DOMAIN runtime_values :
                                            runtime_values[m].t = "str"}}

----------------------------------------------------------------------------
(***************************************************************************)
(* C1: at every point of the execution stack_top <= STACK_SIZE and every   *)
(* call frame's fn_start_stack_index is <= stack_top.                      *)
(***************************************************************************)
C1_StackWithinBounds ==
    /\ stack_top <= STACK_SIZE
    /\ \A k \in 1..Len(call_frames) : call_frames[k].fn_start_stack_index <= stack_top

(***************************************************************************)
(* C2: a push on a full stack ends the run with the runtime error "Stack   *)
(* overflow, stack size = STACK_SIZE, index = STACK_SIZE" followed by one  *)
(* trace line per call frame; the VM does not panic.                       *)
(***************************************************************************)
C2_StackOverflowIsRuntimeError ==
    [][(PushesValue /\ stack_top = STACK_SIZE)
         => /\ status' = "error"
            /\ error'.message = "Stack overflow, stack size = " \o ToString(STACK_SIZE)
                                   \o ", index = " \o ToString(STACK_SIZE)
            /\ Len(error'.trace) = Len(call_frames)]_vars

(***************************************************************************)
(* C3: closures that captured the same variable share it: a SET_UPVALUE    *)
(* through one of them makes every one of them read the assigned value,    *)
(* and once the variable is closed the value they read changes by such an  *)
(* assignment only.                                                        *)
(***************************************************************************)
C3_SiblingsShareVariable ==
    [][\A e1 \in UpvalueEntries : \A e2 \in UpvalueEntries :
         SameVariable(e1, e2) =>
            /\ AssignsThrough(e1) => ReadThrough(e2)' = peek_at(0)
            /\ (ClosedVariable(e2)
                  /\ ~\E e \in UpvalueEntries : SameVariable(e, e2) /\ AssignsThrough(e))
                 => ReadThrough(e2)' = ReadThrough(e2)]_vars

(***************************************************************************)
(* C4: closing an upvalue keeps the variable's value: an Upvalue that goes *)
(* from Stack(i) to Heap(v) has v = stack[i] as it was when it was closed. *)
(***************************************************************************)
C4_ClosingKeepsValue ==
    [][\A h \in DOMAIN upvalue_heap :
         (upvalue_heap[h].location.kind = "Stack"
            /\ upvalue_heap'[h].location.kind = "Heap")
          => upvalue_heap'[h].location.value = stack[upvalue_heap[h].location.index]]_vars

(***************************************************************************)
(* C5: no two entries of the open-upvalue list refer to the same stack     *)
(* index.                                                                  *)
(***************************************************************************)
C5_OpenUpvaluesDistinct ==
    \A i \in 1..Len(up_values) : \A j \in 1..Len(up_values) :
        (i # j /\ upvalue_heap[up_values[i]].location.kind = "Stack"
               /\ upvalue_heap[up_values[j]].location.kind = "Stack")
          => upvalue_heap[up_values[i]].location.index
                # upvalue_heap[up_values[j]].location.index

(***************************************************************************)
(* C6: every closure holds exactly function.upvalue_count upvalues, from   *)
(* the step that creates it on.                                            *)
(***************************************************************************)
C6_UpvalueCountFixed ==
    [][\A c \in DOMAIN closures' :
         /\ Len(closures'[c].upvalues) = Functions[closures'[c].function].upvalue_count
         /\ c \in DOMAIN closures
              => /\ closures'[c].function = closures[c].function
                 /\ Len(closures'[c].upvalues) = Len(closures[c].upvalues)]_vars

\* A run has ended that made closures over no variable, over one and over two.
C6_ClosuresMade ==
    /\ \E c \in DOMAIN closures : Len(closures[c].upvalues) = 2
    /\ \E c \in DOMAIN closures : Len(closures[c].upvalues) = 1
    /\ \E c \in DOMAIN closures : Len(closures[c].upvalues) = 0
    /\ status = "ok"

(***************************************************************************)
(* C7: strings are interned: two string values the VM holds are equal      *)
(* under EQUAL exactly when they are the same handle.                      *)
(***************************************************************************)
C7_EqualStringsSameHandle ==
    \A l \in LiveStrings : \A r \in LiveStrings : value_equals(l, r) <=> l.h = r.h

(***************************************************************************)
(* C8: RETURN in a frame that is not the last one pops that frame, leaves  *)
(* stack_top at the frame's base + 1 with the returned value at the base,  *)
(* leaves no entry with index >= base in the open-upvalue list (each such  *)
(* Upvalue is closed), and resumes the caller just after its CALL; RETURN  *)
(* in the last frame ends the run successfully.                            *)
(***************************************************************************)
C8_Return ==
    [][Running(OP_RETURN) =>
         LET base == call_frame.fn_start_stack_index IN
         IF Len(call_frames) > 1
         THEN /\ status' = "running"
              /\ call_frames' = SubSeq(call_frames, 1, Len(call_frames) - 1)
              /\ stack_top' = base + 1
              /\ stack'[base] = stack[stack_top - 1]
              /\ \A k \in 1..Len(up_values') :
                    ~(upvalue_heap'[up_values'[k]].location.kind = "Stack"
                        /\ upvalue_heap'[up_values'[k]].location.index >= base)
              /\ \A k \in 1..Len(up_values) :
                    (upvalue_heap[up_values[k]].location.kind = "Stack"
                        /\ upvalue_heap[up_values[k]].location.index >= base)
                      => upvalue_heap'[up_values[k]].location.kind = "Heap"
              /\ call_frames'[Len(call_frames')].ip >= 2
              /\ Functions[current_function'].code[call_frames'[Len(call_frames')].ip - 1]
                    = OP_CALL
              /\ current_function'
                    = closures[stack[call_frames'[Len(call_frames')].fn_start_stack_index].c]
                        .function
         ELSE status' = "ok"]_vars

(***************************************************************************)
(* C9: CALL of a closure with as many arguments as its arity pushes        *)
(* exactly one frame, with base stack_top - 1 - arg_count and ip 0, leaves *)
(* the stack as it is, and the caller's saved ip is just past the operand. *)
(***************************************************************************)
C9_CallPushesOneFrame ==
    [][(CallsClosure /\ Callee.arity = Operand(1)) =>
         /\ status' = "running"
         /\ Len(call_frames') = Len(call_frames) + 1
         /\ call_frames'[Len(call_frames')]
               = [fn_start_stack_index |-> stack_top - 1 - Operand(1), ip |-> 0]
         /\ \A k \in 1..(Len(call_frames) - 1) : call_frames'[k] = call_frames[k]
         /\ call_frames'[Len(call_frames)].fn_start_stack_index
               = call_frame.fn_start_stack_index
         /\ call_frames'[Len(call_frames)].ip = ip + 2
         /\ stack' = stack
         /\ stack_top' = stack_top
         /\ Functions[current_function'] = Callee]_vars

\* A function of two parameters has just been called with two arguments.
C9_CalledWithArguments ==
    /\ status = "running"
    /\ Len(call_frames) > 1
    /\ ip = 0
    /\ current_chunk.arity = 2
    /\ call_frame.fn_start_stack_index = stack_top - 3

(***************************************************************************)
(* C10: CALL of a closure with a number of arguments other than its arity  *)
(* pushes no frame and ends the run with a runtime error whose message is  *)
(* "Expected <arity> arguments but got <arg_count>", followed by exactly   *)
(* one line "[line N] in <fn NAME>" per call frame, the innermost frame    *)
(* first and the script ("<fn script>") last.                              *)
(***************************************************************************)
C10_ArityMismatch ==
    [][(CallsClosure /\ Callee.arity # Operand(1)) =>
         /\ status' = "error"
         /\ Len(call_frames') = Len(call_frames)
         /\ error'.message = "Expected " \o ToString(Callee.arity)
                                \o " arguments but got " \o ToString(Operand(1))
         /\ Len(error'.trace) = Len(call_frames)
         /\ \A k \in 1..Len(call_frames) :
               LET frame == call_frames[Len(call_frames) + 1 - k]
                   function == Functions[closures[stack[frame.fn_start_stack_index].c]
                                            .function]
                   name == IF function.name = "" THEN "script" ELSE function.name
               IN /\ (k = Len(call_frames)) <=> (function.name = "")
                  /\ \E n \in {function.lines[i] : i \in 1..Len(function.lines)} :
                        error'.trace[k]
                           = "[line " \o ToString(n) \o "] in <fn " \o name \o ">"]_vars

----------------------------------------------------------------------------
(***************************************************************************)
(* Native functions.                                                       *)
(***************************************************************************)
\* The callee of the CALL about to execute is a native function.
CallsNative ==
    /\ Running(OP_CALL)
    /\ peek_ok(Operand(1))
    /\ peek_at(Operand(1)).t = "native"

NativeCallee == peek_at(Operand(1))

\* result is what the host function of native returns for arguments:
\* clock a number, to_string the string its first argument displays as.
host_returned(native, arguments, result) ==
    CASE native.name = "clock" -> result.t = "num"
      [] native.name = "to_string" ->
            result.t = "str" /\ result.s = ValueToString(arguments[1])
      [] OTHER -> FALSE

(***************************************************************************)
(* C11: CALL argc on a native function pushes no call frame, writes what   *)
(* the host function returns for the argc arguments into the callee slot   *)
(* stack[frame_base] and sets stack_top = frame_base + 1.                  *)
(***************************************************************************)
C11_NativeCall ==
    [][(CallsNative /\ NativeCallee.arity = Operand(1)) =>
         LET frame_base == stack_top - 1 - Operand(1) IN
         /\ status' = "running"
         /\ Len(call_frames') = Len(call_frames)
         /\ stack_top' = frame_base + 1
         /\ host_returned(NativeCallee,
                          [k \in 1..Operand(1) |-> stack[frame_base + k]],
                          stack'[frame_base])]_vars

(***************************************************************************)
(* C12: CALL argc on a native function whose arity is not argc fails with  *)
(* a runtime error and the host function is not invoked (the callee slot   *)
(* and stack_top stay as they are).                                        *)
(***************************************************************************)
C12_NativeArityEnforced ==
    [][(CallsNative /\ NativeCallee.arity # Operand(1)) =>
         /\ status' = "error"
         /\ stack' = stack
         /\ stack_top' = stack_top]_vars

----------------------------------------------------------------------------
(***************************************************************************)
(* Classes.                                                                *)
(***************************************************************************)
\* An interpret call of program has returned or died.
Ended(program) == main_function = main_function_of(program) /\ status # "running"

(***************************************************************************)
(* C13: CALL on a class whose init method takes two arguments checks       *)
(* init's arity against argc: the run of                                   *)
(*   class Brunch { init(food, drinks) { ... } }                           *)
(*   var brunch = Brunch("eggs");                                          *)
(* ends with the runtime error "Expected 2 arguments but got 1" and the    *)
(* trace line of the script, which made the call on line 9.                *)
(***************************************************************************)
C13_ClassCallChecksInitArity ==
    Ended(ProgClassInit) =>
        /\ status = "error"
        /\ error.message = "Expected 2 arguments but got 1"
        /\ error.line = 9
        /\ error.trace = <<"[line 9] in <fn script>">>

(***************************************************************************)
(* C14: a field written by SET_PROPERTY is what GET_PROPERTY reads on the  *)
(* same instance afterwards, each field on its own: the run of             *)
(*   class Pair {}  var pair = Pair();  pair.first = 1;  pair.second = 2;  *)
(*   print pair.first + pair.second;                                       *)
(* succeeds and the line it prints is 3.                                   *)
(***************************************************************************)
C14_FieldRoundTrip ==
    Ended(ProgClassFields) =>
        /\ status = "ok"
        /\ output # <<>>
        /\ output[Len(output)] = "3"

(***************************************************************************)
(* C15: GET_PROPERTY name replaces an instance on top of the stack by its  *)
(* field name or, when only the class has name, by the method bound to the *)
(* instance (one value for one value); when neither exists, or when the    *)
(* receiver is not an instance, the result is a runtime error.  vm.rs      *)
(* constructs no instance, so there every receiver is of the last kind.    *)
(***************************************************************************)
C15_GetProperty ==
    [][(Running(OP_GET_PROPERTY) /\ peek_ok(0)) =>
         IF peek_at(0).t = "instance"
         THEN \/ status' = "error"
              \/ status' = "running" /\ stack_top' = stack_top /\ call_frames' = Advance(2)
         ELSE status' = "error"]_vars

\* The name operand of the global-variable instruction about to execute.
GlobalName == read_constant_at(current_chunk, ip + 1)

(***************************************************************************)
(* C16: SET_GLOBAL name overwrites the global only when name is already    *)
(* defined and leaves the assigned value on top of the stack; when name is *)
(* not defined it fails with Runtime error "Undefined variable 'name'" and *)
(* the globals are left unchanged.                                         *)
(***************************************************************************)
C16_SetGlobal ==
    [][(Running(OP_SET_GLOBAL) /\ GlobalName.t = "str" /\ peek_ok(0)) =>
         IF GlobalName.s \in DOMAIN runtime_values
         THEN /\ status' = "running"
              /\ runtime_values' = [runtime_values EXCEPT ![GlobalName.s] = peek_at(0)]
              /\ stack_top' = stack_top
              /\ stack'[stack_top - 1] = peek_at(0)
         ELSE /\ status' = "error"
              /\ error'.message = "Undefined variable '" \o GlobalName.s \o "'"
              /\ runtime_values' = runtime_values]_vars

(***************************************************************************)
(* C17: DEFINE_GLOBAL name pops its value and writes it to name, defined   *)
(* before or not; GET_GLOBAL name pushes the value last written to name,   *)
(* and fails with Runtime error "Undefined variable 'name'" and one trace  *)
(* line per call frame when name was never defined.                        *)
(***************************************************************************)
C17_GetGlobal ==
    [][/\ (Running(OP_DEFINE_GLOBAL) /\ GlobalName.t = "str" /\ peek_ok(0)) =>
            /\ status' = "running"
            /\ runtime_values' = (GlobalName.s :> peek_at(0)) @@ runtime_values
            /\ stack_top' = stack_top - 1
       /\ (Running(OP_GET_GLOBAL) /\ GlobalName.t = "str" /\ push_assert(stack_top)) =>
            IF GlobalName.s \in DOMAIN runtime_values
            THEN /\ status' = "running"
                 /\ stack_top' = stack_top + 1
                 /\ stack'[stack_top] = runtime_values[GlobalName.s]
                 /\ runtime_values' = runtime_values
            ELSE /\ status' = "error"
                 /\ error'.message = "Undefined variable '" \o GlobalName.s \o "'"
                 /\ Len(error'.trace) = Len(call_frames)
                 /\ runtime_values' = runtime_values]_vars

(***************************************************************************)
(* C18: every interpret call, whether the previous call on the same VM     *)
(* succeeded or failed with a runtime error at any call depth, starts with *)
(* exactly one call frame, of frame base 0 and ip 0, the closure of the    *)
(* script in slot 0 and stack_top = 1, and leaves the globals of earlier   *)
(* calls as they were.                                                     *)
(***************************************************************************)
C18_InterpretResets ==
    [][runs' # runs =>
         /\ call_frames' = <<CallFrame(0)>>
         /\ stack_top' = 1
         /\ stack'[0].t = "closure"
         /\ closures'[stack'[0].c].function \in Scripts
         /\ closures'[stack'[0].c].upvalues = <<>>
         /\ current_function' = closures'[stack'[0].c].function
         /\ status' = "running"
         /\ runtime_values' = runtime_values]_vars

\* A second interpret call, made after a call that failed four frames deep
\* (slot 6 still holds its last argument), has run to its end and has read
\* the global b that the failed call defined.
C18_RunAfterDeepError ==
    /\ runs = 2
    /\ Ended(ProgBlockUndefined)
    /\ status = "ok"
    /\ output[Len(output)] = "<fn b>"
    /\ stack[6].t = "str"
    /\ stack[6].s = "many"

\* The instruction about to execute is EQUAL or NOT_EQUAL and has two operands.
ComparesOperands ==
    /\ status = "running"
    /\ instruction \in {OP_EQUAL_EQUAL, OP_BANG_EQUAL}
    /\ peek_ok(1)

\* What the comparison that just executed says about equality: the boolean
\* it pushed, negated for NOT_EQUAL.
FoundEqual(pushed) == IF instruction = OP_EQUAL_EQUAL THEN pushed.b ELSE ~pushed.b

(***************************************************************************)
(* C19: EQUAL and NOT_EQUAL never fail; they pop two values and push one   *)
(* boolean.  Operands of different variants are unequal, two booleans are  *)
(* compared by value, nil equals nil, two strings are equal exactly when   *)
(* their handles are identical; NOT_EQUAL pushes the negation of what      *)
(* EQUAL pushes, and swapping the operands does not change the result.     *)
(***************************************************************************)
C19_Equality ==
    [][ComparesOperands =>
         LET l == peek_at(0)
             r == peek_at(1)
         IN /\ status' = "running"
            /\ stack_top' = stack_top - 1
            /\ stack'[stack_top - 2].t = "bool"
            /\ LET equal == FoundEqual(stack'[stack_top - 2]) IN
               /\ equal <=> value_equals(l, r)
               /\ equal <=> value_equals(r, l)
               /\ IF l.t # r.t THEN ~equal
                  ELSE CASE l.t = "bool" -> equal <=> (l.b = r.b)
                         [] l.t = "nil" -> equal
                         [] l.t = "str" -> equal <=> (l.h = r.h)
                         [] OTHER -> TRUE]_vars

(***************************************************************************)
(* C20: ADD pops two operands and pushes one result, the sum of two        *)
(* numbers or the concatenation, left then right, of two strings; for any  *)
(* other pair of operands, number + string included, it fails with a       *)
(* Runtime error.                                                          *)
(***************************************************************************)
C20_Add ==
    [][(Running(OP_ADD) /\ peek_ok(1)) =>
         LET l == peek_at(1)
             r == peek_at(0)
         IN IF l.t = "num" /\ r.t = "num"
            THEN /\ status' = "running"
                 /\ stack_top' = stack_top - 1
                 /\ stack'[stack_top - 2] = Number(l.n + r.n)
            ELSE IF l.t = "str" /\ r.t = "str"
            THEN /\ status' = "running"
                 /\ stack_top' = stack_top - 1
                 /\ stack'[stack_top - 2].t = "str"
                 /\ stack'[stack_top - 2].s = l.s \o r.s
            ELSE status' = "error"]_vars

\* Interpret call k has ended (the calls before the last one all have).
RunEnded(k) == k < Len(history) \/ status \in {"ok", "error"}

\* How interpret call k ended: Ok or the error it returned.
RunOutcome(k) ==
    IF k < Len(history) THEN history[k + 1].before
    ELSE [status |-> status, error |-> error]

\* What interpret call k printed.
RunOutput(k) ==
    SubSeq(output, history[k].written + 1,
           IF k < Len(history) THEN history[k + 1].written ELSE Len(output))

JumpOperand == Operand(1) * 256 + Operand(2)

\* The condition a jump peeks at is nil or false.
ConditionIsFalsey ==
    \/ stack[stack_top - 1].t = "nil"
    \/ stack[stack_top - 1].t = "bool" /\ ~stack[stack_top - 1].b

(***************************************************************************)
(* C30: JUMP_IF_FALSE and JUMP_IF_TRUE leave stack_top and every slot of   *)
(* the stack as they were; ip becomes the address after the two operand    *)
(* bytes, plus the big-endian 16-bit operand when the condition on top of  *)
(* the stack is falsey (nil or false) for JUMP_IF_FALSE, or is any other   *)
(* value (0 included) for JUMP_IF_TRUE.                                    *)
(***************************************************************************)
C30_ConditionalJumps ==
    [][(status = "running" /\ instruction \in {OP_JUMP_IF_FALSE, OP_JUMP_IF_TRUE}) =>
          /\ stack' = stack
          /\ stack_top' = stack_top
          /\ Len(call_frames') = Len(call_frames)
          /\ call_frames'[Len(call_frames')].ip =
                 ip + 3 + (IF (instruction = OP_JUMP_IF_FALSE) = ConditionIsFalsey
                           THEN JumpOperand ELSE 0)]_vars

\* run is past the jump of `true or 1 + ... + 1`, taken over 258 bytes, after the seven
\* jumps before it: 2 (or), 2 (and), nil (or), 0 (and), false (or), false (and), true (and).
C30_JumpsTaken ==
    /\ status = "running"
    /\ current_function \in Scripts
    /\ Functions[current_function] = ProgLogical[1]
    /\ ip = Len(ProgLogical[1].code) - 3
    /\ stack_top = 2
    /\ stack[1] = Boolean(TRUE)
    /\ output = <<"2", "3", "0", "1", "s", "false", "nil">>

\* The entry of the running closure that the instruction's operand selects.
SelectedEntry == <<stack[call_frame.fn_start_stack_index].c, Operand(1) + 1>>

\* run is about to execute SET_UPVALUE in a closure that has the upvalue it names.
SetsUpvalue ==
    /\ Running(OP_SET_UPVALUE)
    /\ closure_on_stack(call_frame.fn_start_stack_index)
    /\ Operand(1) < Len(current_closure.upvalues)
    /\ peek_ok(0)

(***************************************************************************)
(* C31: SET_UPVALUE slot stores the value on top of the stack in the       *)
(* variable that upvalue number slot of the running closure refers to (its *)
(* stack slot while open, its heap cell once closed) and changes nothing   *)
(* else of the stack, whatever the slot; GET_UPVALUE slot then reads it.   *)
(***************************************************************************)
C31_SetUpvalue ==
    [][SetsUpvalue =>
          \A e \in UpvalueEntries :
             e = SelectedEntry =>
                LET location == closures[e[1]].upvalues[e[2]].location IN
                /\ stack_top' = stack_top
                /\ \A i \in 0..(stack_top - 1) :
                      (location.kind = "Stack" /\ location.index = i) \/ stack'[i] = stack[i]
                /\ ReadThrough(e)' = peek_at(0)]_vars

\* The stack index of entry k of the open-upvalue list.
OpenIndex(k) == upvalue_heap[up_values[k]].location.index

(***************************************************************************)
(* C32: read from its back, where capture_upvalue and close_upvalues scan  *)
(* it, the open-upvalue list holds strictly descending stack indexes, in   *)
(* whatever order the slots were captured.                                 *)
(***************************************************************************)
C32_OpenUpvaluesSorted ==
    \A j \in 1..Len(up_values) : \A k \in 1..Len(up_values) :
        j < k =>
            /\ upvalue_heap[up_values[j]].location.kind = "Stack"
            /\ upvalue_heap[up_values[k]].location.kind = "Stack"
            /\ OpenIndex(j) < OpenIndex(k)

\* run is about to execute an instruction that calls close_upvalues.
ClosesUpvalues ==
    /\ status = "running"
    /\ instruction \in {OP_RETURN, OP_CLOSE_UPVALUE}
    /\ pop_assert(stack_top)

\* The argument of that call.
ClosedFrom ==
    IF instruction = OP_RETURN THEN call_frame.fn_start_stack_index ELSE stack_top - 1

(***************************************************************************)
(* C33: close_upvalues(i_min) closes the open upvalues of stack index      *)
(* i_min and above, and those only: afterwards the open-upvalue list has   *)
(* no entry of index >= i_min, each upvalue it closed is at a Heap         *)
(* location, and each open upvalue below i_min is still in the list, its   *)
(* location as it was.                                                     *)
(***************************************************************************)
C33_CloseUpvalues ==
    [][ClosesUpvalues =>
          /\ \A k \in 1..Len(up_values') :
                upvalue_heap'[up_values'[k]].location.kind = "Stack"
                    => upvalue_heap'[up_values'[k]].location.index < ClosedFrom
          /\ \A k \in 1..Len(up_values) :
                IF OpenIndex(k) >= ClosedFrom
                THEN upvalue_heap'[up_values[k]].location.kind = "Heap"
                ELSE /\ \E j \in 1..Len(up_values') : up_values'[j] = up_values[k]
                     /\ upvalue_heap'[up_values[k]] = upvalue_heap[up_values[k]]]_vars

(***************************************************************************)
(* C34: whenever run is between two instructions, every upvalue at a       *)
(* location Stack(i), be it in the open-upvalue list or in the vector of a *)
(* closure, has i < stack_top.                                             *)
(***************************************************************************)
C34_OpenUpvaluesBelowTop ==
    status = "running" =>
        /\ \A k \in 1..Len(up_values) :
              upvalue_heap[up_values[k]].location.kind = "Stack" => OpenIndex(k) < stack_top
        /\ \A e \in UpvalueEntries :
              closures[e[1]].upvalues[e[2]].location.kind = "Stack"
                  => closures[e[1]].upvalues[e[2]].location.index < stack_top

(***************************************************************************)
(* C36: ADD, SUBTRACT, MULTIPLY, DIVIDE, the four comparisons and NEGATE,  *)
(* when their operands have the wrong types, end the run with an error and *)
(* leave stack_top and the stack as they were before the instruction: no   *)
(* operand is popped and no result is pushed or printed.                   *)
(***************************************************************************)
TypeChecked ==
    {OP_ADD, OP_SUBTRACT, OP_MULTIPLY, OP_DIVIDE, OP_GREATER, OP_GREATER_EQUAL,
     OP_LESS, OP_LESS_EQUAL, OP_NEGATE}

C36_TypeErrorKeepsStack ==
    [][status = "running" /\ instruction \in TypeChecked /\ status' # "running"
          => /\ stack_top' = stack_top
             /\ stack' = stack
             /\ output' = output]_vars

\* A comparison has just failed on a number and a string, both still on the stack.
C36_ComparisonFailed ==
    /\ status = "error"
    /\ error.message = "Can perform binary operations only on numbers."
    /\ stack_top = 3
    /\ stack[1].t = "num"
    /\ stack[2].t = "str"
    /\ main_function \in Scripts
    /\ Functions[main_function] = ProgLessString[1]

(***************************************************************************)
(* C37: the list of open upvalues is empty whenever an interpret call      *)
(* starts to execute bytecode, also when the interpret call before it on   *)
(* the same VM ended with a runtime error while upvalues were open.        *)
(***************************************************************************)
C37_NoUpvalueOutlivesRun ==
    [][runs' # runs /\ status' = "running" => up_values' = <<>>]_vars

(***************************************************************************)
(* C38: while run executes, the bases of the call frames increase strictly *)
(* from the bottom frame, whose base is 0, to the top frame, the slot at   *)
(* the base of every frame holds a closure, and there are no more frames   *)
(* than values on the stack.                                               *)
(***************************************************************************)
FrameBase(k) == call_frames[k].fn_start_stack_index

C38_FrameBases ==
    status = "running" =>
        /\ Len(call_frames) >= 1
        /\ FrameBase(1) = 0
        /\ \A k \in 1..(Len(call_frames) - 1) : FrameBase(k) < FrameBase(k + 1)
        /\ \A k \in 1..Len(call_frames) : closure_on_stack(FrameBase(k))
        /\ Len(call_frames) <= stack_top

(***************************************************************************)
(* C39: run consumes, for every opcode, exactly the operand bytes that the *)
(* disassembler attributes to it: after an instruction at offset o that    *)
(* neither jumps, calls nor returns, ip is the offset of the next          *)
(* instruction as disassemble_instruction computes it.                     *)
(***************************************************************************)
TransfersControl == {OP_JUMP, OP_JUMP_IF_FALSE, OP_JUMP_IF_TRUE, OP_LOOP, OP_CALL, OP_RETURN}

C39_OperandBytes ==
    [][/\ status = "running"
       /\ status' = "running"
       /\ instruction \notin TransfersControl
       /\ Len(call_frames') = Len(call_frames)
       => ip' = disassemble_instruction(instruction, current_chunk, ip, FALSE).offset]_vars

----------------------------------------------------------------------------
(***************************************************************************)
(* The library components on their own: every variable starts as in Init   *)
(* and the operations of one component are called in any order.            *)
(***************************************************************************)
SpecAllocator == Init /\ [][AllocatorNext]_vars

SpecChunk == Init /\ [][ChunkNext]_vars

SpecEvie == Init /\ [][EvieNext]_vars

RECURSIVE SizeOfAll(_)
\* The sum of size_of over the boxes at the given addresses.
SizeOfAll(addresses) ==
    IF addresses = {} THEN 0
    ELSE LET a == CHOOSE x \in addresses : TRUE IN
         size_of(boxes[a].type) + SizeOfAll(addresses \ {a})

(***************************************************************************)
(* C21: when every handle is freed at most once, bytes_allocated is the    *)
(* sum of size_of over the live allocations, so it is zero once every      *)
(* allocation has been freed, and free never takes the counter below zero  *)
(* (its assertion never fails).                                            *)
(***************************************************************************)
C21_BytesAllocated ==
    /\ bytes_allocated = SizeOfAll(Live)
    /\ bytes_allocated >= 0
    /\ returned.op = "free" => ~returned.panicked

\* Two strings were interned and both have been freed again.
C21_AllFreed ==
    /\ returned.op = "free"
    /\ Live = {}
    /\ DOMAIN interned_strings = Contents
    /\ bytes_allocated = 0

\* No string of the table has been freed: the sequence of calls so far is one
\* the table's handles are all valid in.
NoInternedFreed ==
    \A c \in DOMAIN interned_strings :
        /\ boxes[interned_strings[c].string].type = "Box<str>"
        /\ boxes[interned_strings[c].string].s = c

(***************************************************************************)
(* C22: as long as no interned string is freed, alloc_interned_str returns *)
(* the handle of an earlier call exactly when the contents are equal, and  *)
(* a call for contents already interned allocates nothing;                 *)
(* alloc_interned_object returns the object handle the table holds for the *)
(* string, the one an earlier call for the same string returned.           *)
(***************************************************************************)
C22_Interning ==
    [][/\ (NoInternedFreed /\ returned'.op = "alloc_interned_str") =>
            /\ \A d \in DOMAIN interned_strings :
                 (interned_strings[d].string = returned'.result) <=> (d = returned'.arg)
            /\ returned'.arg \in DOMAIN interned_strings =>
                 /\ bytes_allocated' = bytes_allocated
                 /\ boxes' = boxes
            /\ interned_strings'[returned'.arg].string = returned'.result
       /\ (returned'.op = "alloc_interned_object" /\ ~returned'.panicked) =>
            LET contents == boxes[returned'.arg].s IN
            /\ interned_strings'[contents].object = returned'.result
            /\ interned_strings[contents].object # 0 =>
                 /\ returned'.result = interned_strings[contents].object
                 /\ bytes_allocated' = bytes_allocated]_vars

\* alloc_interned_str was called for contents that were interned before (the
\* table already holds their object) while no interned string was freed.
C22_InternedAgain ==
    /\ returned.op = "alloc_interned_str"
    /\ returned.arg = "a"
    /\ interned_strings["a"].object # 0
    /\ boxes[interned_strings["a"].object].type = "Object"
    /\ NoInternedFreed

(***************************************************************************)
(* C23: the index add_constant(v) returns addresses the constant just      *)
(* added, constants[index] = v, and the constant pool never holds more     *)
(* than 256 entries.                                                       *)
(***************************************************************************)
C23_AddConstantIndex ==
    [][item_count(constants') = item_count(constants) + 1 =>
         /\ constants'[added'.index + 1] = added'.value
         /\ item_count(constants') <= 256]_vars

(***************************************************************************)
(* C24: after any sequence of Chunk operations lines is aligned with code: *)
(* both have the same length and lines[i] is the line write_chunk was      *)
(* given when it wrote code[i].                                            *)
(***************************************************************************)
C24_LinesAligned ==
    /\ Len(lines) = item_count(code)
    /\ \A i \in 1..item_count(code) : lines[i] = given[i]

\* The class tags print_error writes for the errors of a script.
ClassTags == {"[Scan Error]", "[Parse Error]", "[Resolution Error]", "[Runtime Error]"}

C26_ReplEndsAtEof ==
    [][pc = "interpret" =>
         /\ interpreted' = Append(interpreted, with_semi_colon(trim(input_line)))
         /\ bytes_read = 0 => pc' = "exited"]_vars

SpecDisassembler == Init /\ [][DisassemblerNext]_vars

\* The instruction a line of the writer names.
opcode_of(text) == CHOOSE byte \in 0..(Len(DebugNames) - 1) : to_string(byte) = text

\* The bytes of the chunk that a line of the writer stands for.
bytes_of(written) ==
    IF written.text \in {"local", "upvalue"}
    THEN <<IF written.text = "local" THEN 1 ELSE 0, written.numbers[1]>>
    ELSE LET opcode == opcode_of(written.text)
             forward == written.numbers[2] - written.numbers[1] - 3
             backward == written.numbers[1] + 3 - written.numbers[2]
         IN CASE opcode \in {OP_JUMP, OP_JUMP_IF_FALSE, OP_JUMP_IF_TRUE} ->
                     <<opcode, forward \div 256, forward % 256>>
              [] opcode = OP_LOOP -> <<opcode, backward \div 256, backward % 256>>
              [] opcode = OP_INVOKE -> <<opcode, written.numbers[2], written.numbers[1]>>
              [] OTHER -> <<opcode>> \o written.numbers

\* The code recovered from the lines of a disassembly.
RECURSIVE Assemble(_)
Assemble(listing) ==
    IF listing = <<>> THEN <<>> ELSE bytes_of(Head(listing)) \o Assemble(Tail(listing))

(***************************************************************************)
(* C28: the disassembly of a well-formed chunk starts at offset 0, steps   *)
(* from instruction to instruction by the width of each (the pairs after   *)
(* CLOSURE included) and lands on the length of the code, and the lines it *)
(* has written give back, opcode and operands, the code it has passed.     *)
(***************************************************************************)
C28_Disassembly ==
    listed # 0 =>
        /\ next_offset <= item_count(Functions[listed].code)
        /\ Assemble(Tail(writer)) = SubSeq(Functions[listed].code, 1, next_offset)

SpecValue == Init /\ [][ValueNext]_vars

(***************************************************************************)
(* C29: in both representations, as_nil, as_bool, as_number and as_object  *)
(* panic on a value made by the constructor of another variant, and give   *)
(* back what the constructor was given on a value of their own variant.    *)
(***************************************************************************)
C29_Extractors ==
    extracted.as # "none" =>
        IF extracted.as = constructed.variant
        THEN ~extracted.panicked /\ extracted.result = constructed.payload
        ELSE extracted.panicked

----------------------------------------------------------------------------
SpecObjects == Init /\ [][ObjectsNext]_vars

(***************************************************************************)
(* C35: after any sequence of insert and get calls the store answers like  *)
(* one map: get(k) returns the value of the most recent insert(k, _), or   *)
(* None if k was never inserted, and contains_key(k) is true exactly when  *)
(* get(k) returns Some.                                                    *)
(***************************************************************************)
C35_SingleMap ==
    \A key \in GlobalKeys :
        /\ objects_get(objects, cached_values, key).result = inserted[key]
        /\ objects_contains_key(objects, cached_values, key)
               = objects_get(objects, cached_values, key).result.is_some

\* More keys than one drain moves are in the hash map, and after a get the
\* cache holds a key that was inserted again, with another value, after it
\* was drained.
C35_DrainedAndReinserted ==
    /\ called = "get"
    /\ Cardinality({key \in GlobalKeys : objects[key].is_some}) > ITEM_COUNT
    /\ \E key \in GlobalKeys :
          /\ objects[key].is_some
          /\ cache_get(cached_values, key).is_some
          /\ cache_get(cached_values, key) # objects[key]

(***************************************************************************)
(* C40: the vector of the cache never holds two items with the same key,   *)
(* and right after every Objects::insert it holds fewer than ITEM_COUNT    *)
(* items, whatever insert and get calls came before.                       *)
(***************************************************************************)
C40_CacheBounded ==
    /\ \A i \in 1..Len(cached_values) : \A j \in 1..Len(cached_values) :
          i # j => cached_values[i].k # cached_values[j].k
    /\ called = "insert" => cache_size(cached_values) < ITEM_COUNT
====
